---- MODULE Spec2Model ----
(***************************************************************************)
(* A state-machine model of the perception-and-targeting core:             *)
(*   - time/_timestamped_history_buffer.py  (TimestampedHistoryBuffer)     *)
(*   - handlers/_odometry_message_handler.py (OdometryMessageHandler)      *)
(*   - uart/_crc.py, uart/_transceiver.py, uart/_perservering_receiver.py  *)
(*   - target_tracker/_target_tracker.py, _tracked_target.py               *)
(*   - filters/_low_pass_filter.py, beyblade_identification/               *)
(*   - target_selection/_target_selector.py, _select_target.py             *)
(*   - host_communications/_select_new_target_request_manager.py           *)
(*   - robot_clustering/_variable_k_means.py, _target_grouper.py           *)
(*   - main.py (main, MainApplication.run_forever, terminate)              *)
(*   - spatial/_transform.py, spatial/_orientation.py (Transform)          *)
(* Timestamps and durations are integers (microseconds, or seconds where   *)
(* a filter reads them).  An Optional is a sequence of length 0 (None) or  *)
(* 1.  Each subsystem has its own specification; the variables of the      *)
(* others stay at their initial values.                                    *)
(***************************************************************************)
EXTENDS Integers, Sequences, FiniteSets, TLC

VARIABLES
    keys,       \* TimestampedHistoryBuffer._keys
    data,       \* TimestampedHistoryBuffer._data
    bufOp,      \* the last buffer operation: its arguments and its outcome
    cleared,    \* whether clear() has ever been called on the buffer
    rx,         \* the Transceiver's fields
    port,       \* the bytes waiting in the serial port, oldest first
    calls,      \* the handler invocations made so far, oldest first
    pr,         \* the PerseveringReceiver's fields and what its process_in raised
    wire,       \* the bytes the sender wrote that have not reached the port yet
    scen,       \* what the sender wrote: the frames, the corrupted byte, the mode
    now,        \* the clock get_current_time reads
    targets,    \* TargetTracker._targets, in list order
    next_instance_id,   \* TargetTracker._next_instance_id
    trkOp,      \* the last TargetTracker.update: its inputs and what it decided
    robot_target,    \* TargetSelector._robot_target
    plate_target,    \* TargetSelector._plate_target
    last_update_state,    \* TargetSelector._last_update_state
    tracked_robots,    \* BeybladeIdentifier._tracked_robots, instance id to indicator
    selOp,   \* the last main-loop call, whether it ran robot_selector, the frame time
    aim_message,   \* the last AutoAimTargetUpdateMessage sent to the host, if any
    select_in,    \* the arguments of a select_target call - the targets as their rule scores, and the threshold
    select_out,   \* what the call returned, once it has - the index of the chosen target, if any
    latest_queued_request,    \* SelectNewTargetRequestManager._latest_queued_request
    lock,    \* SelectNewTargetRequestManager._lock - the thread holding it, "" if free
    pcs,    \* where the receiver thread and the main-loop thread stand in the manager
    locals,    \* the local variables of the calls in progress
    mgrOp,   \* what was registered and returned so far, and the last value returned
    indicator,    \* a BeybladeIndicator - its two filters
    indOp,   \* the last BeybladeIndicator.update - its input, and the value read before and after it
    tracked_centers,    \* VariableKMeans._tracked_centers, in list order
    kmOp,   \* the last VariableKMeans.update - its arguments, what it decided for each observation, what it kept
    group_in,    \* the argument of a group_targets call - the plates, as their positions, in list order
    group_out,   \* what the call returned, once it has - the centers, each with the plates it came from
    buf_lock,    \* TimestampedHistoryBuffer._lock - the thread holding it, "" if free
    buf_pcs,    \* where the receiver thread and the main-loop thread stand in the buffer
    buf_locals,    \* the arguments of the buffer calls in progress
    shOp,   \* the reads made so far, the buffer as serialized calls leave it, and the last read
    rxOp,   \* the last read or call of the receiver - whether it returned, waited in a read, rejected a frame
    main_pc,    \* where main() stands - start, loop, exit_context, except, exited
    uart_thread_alive,    \* self._uart_thread.is_alive()
    identity,    \* RobotIdentityManager._identity
    resources,    \* the serial port and the HTTP server - unopened or none, open or serving, closed
    exception,    \* the exception in flight in main(), "" if none
    critical_log,    \* the records logged with logging.critical, oldest first
    exit_code,    \* the exit status of the process, once it has exited
    updates,    \* the update calls made on the trackers, the clusterer and the selector, and the reselections
    sent,    \* the AutoAimTargetUpdateMessage sent to the host, oldest first
    mainOp,   \* the last frame taken - how many so far, its time, whether it was skipped; how the loop was left
    transform,    \* the Transform - its translation and rotation
    inverse,    \* what transform.get_inverse() returned, None before the call
    tfOp    \* the last call on the transform or its inverse - its argument and result

bufVars == <<keys, data, bufOp, cleared>>

uartVars == <<rx, port, calls, pr, wire, scen, now>>

trkVars == <<targets, next_instance_id, trkOp>>

selVars == <<robot_target, plate_target, last_update_state, tracked_robots, selOp>>

aimVars == <<aim_message>>

pickVars == <<select_in, select_out>>

reqVars == <<latest_queued_request, lock, pcs, locals, mgrOp>>

indVars == <<indicator, indOp>>

kmVars == <<tracked_centers, kmOp>>

grpVars == <<group_in, group_out>>

shVars == <<buf_lock, buf_pcs, buf_locals, shOp>>

rxOpVars == <<rxOp>>

mainVars == <<main_pc, uart_thread_alive, identity, resources, exception, critical_log, exit_code, updates, sent, mainOp>>

tfVars == <<transform, inverse, tfOp>>

vars == <<keys, data, bufOp, cleared, rx, port, calls, pr, wire, scen, now,
          targets, next_instance_id, trkOp,
          robot_target, plate_target, last_update_state, tracked_robots, selOp,
          aim_message,
          select_in, select_out,
          latest_queued_request, lock, pcs, locals, mgrOp,
          indicator, indOp,
          tracked_centers, kmOp,
          group_in, group_out,
          buf_lock, buf_pcs, buf_locals, shOp,
          rxOp,
          main_pc, uart_thread_alive, identity, resources, exception, critical_log, exit_code, updates, sent, mainOp,
          transform, inverse, tfOp>>

----------------------------------------------------------------------------
(* Generic helpers *)

Abs(x) == IF x < 0 THEN -x ELSE x

None == <<>>

Some(x) == <<x>>

\* Python's list.pop(0)
PopFront(s) == SubSeq(s, 2, Len(s))

----------------------------------------------------------------------------
(* TimestampedHistoryBuffer *)

\* configuration of the buffer under analysis (constructor arguments, both > 0)
MaxEntries == 2
MaxEntryAge == 3
\* timestamps offered to the buffer are 0..MaxTime
MaxTime == 5

Times == 0..MaxTime
Values == {"a", "b"}

num_entries(d) == Len(d)

oldest_timestamp(k, d) == IF Len(d) = 0 THEN None ELSE Some(k[1])

latest_timestamp(k, d) == IF Len(d) = 0 THEN None ELSE Some(k[Len(k)])

\* ExpiredCond without the age rule: only the entry count evicts
ExpiredCond_CountOnly(k, d, latest) == Len(d) > MaxEntries

\* one evaluation of the loop condition of _remove_expired_items
ExpiredCond(k, d, latest) ==
    \/ Len(d) > MaxEntries
    \/ /\ oldest_timestamp(k, d) # None
       /\ Abs(latest - oldest_timestamp(k, d)[1]) > MaxEntryAge

RECURSIVE _remove_expired_items(_, _, _)
_remove_expired_items(k, d, latest) ==
    IF ExpiredCond(k, d, latest)
    THEN _remove_expired_items(PopFront(k), PopFront(d), latest)
    ELSE [keys |-> k, data |-> d]

\* AddTooOld with a strict comparison: a key equal to the newest one is accepted
AddTooOld_Strict(k, d, t) ==
    /\ latest_timestamp(k, d) # None
    /\ t < latest_timestamp(k, d)[1]

\* the guard of add that raises BufferEntryTooOldError
AddTooOld(k, d, t) ==
    /\ latest_timestamp(k, d) # None
    /\ t <= latest_timestamp(k, d)[1]

\* add(timestamp, value): the buffer after the call and whether it raised
add(k, d, t, v) ==
    IF AddTooOld(k, d, t)
    THEN [keys |-> k, data |-> d, raised |-> TRUE]
    ELSE LET r == _remove_expired_items(Append(k, t), Append(d, v), t)
         IN  [keys |-> r.keys, data |-> r.data, raised |-> FALSE]

\* clear(): what is left of _keys and _data
clear(k, d) == [keys |-> k, data |-> <<>>]

\* bisect.bisect_left(a, x, lo, hi): the binary search itself, 0-based result
RECURSIVE bisect_left(_, _, _, _)
bisect_left(a, x, lo, hi) ==
    IF lo < hi
    THEN LET mid == (lo + hi) \div 2
         IN  IF a[mid + 1] < x
             THEN bisect_left(a, x, mid + 1, hi)
             ELSE bisect_left(a, x, lo, mid)
    ELSE lo

\* self._data[i] for a 0-based index i >= 0: the value or an IndexError
DataAt(d, i) ==
    IF i < Len(d)
    THEN [kind |-> "value", pos |-> i, value |-> d[i + 1]]
    ELSE [kind |-> "IndexError", pos |-> i, value |-> ""]

NoneResult == [kind |-> "None", pos |-> 0, value |-> ""]

\* the index search picks between the two neighbours of the insertion point
ClosestPos(k, pos, t) ==
    IF Abs(k[pos] - t) < Abs(k[pos + 1] - t) THEN pos - 1 ELSE pos

\* search(timestamp)
search(k, d, t) ==
    IF Len(d) = 0 THEN NoneResult
    ELSE IF t < oldest_timestamp(k, d)[1] \/ t > latest_timestamp(k, d)[1]
    THEN NoneResult
    ELSE LET pos == bisect_left(k, t, 0, Len(k))
         IN  IF pos = 0 THEN DataAt(d, 0)
             ELSE IF pos = Len(k)
             THEN [kind |-> "value", pos |-> Len(d) - 1, value |-> d[Len(d)]]
             ELSE DataAt(d, ClosestPos(k, pos, t))

NoOp ==
    [op |-> "init", t |-> 0, v |-> "", res |-> NoneResult, raised |-> FALSE,
     escaped |-> "", evicted |-> 0]

\* add is offered while _keys holds at most MaxEntries keys: always, for a buffer
\* that was never cleared; a cleared buffer keeps its stale keys, and this caps them
BufAdd ==
    /\ Len(keys) <= MaxEntries
    /\ \E t \in Times, v \in Values :
        LET r == add(keys, data, t, v)
        IN  /\ keys' = r.keys
            /\ data' = r.data
            /\ bufOp' = [NoOp EXCEPT !.op = "add", !.t = t, !.v = v,
                             !.raised = r.raised,
                             !.escaped = IF r.raised THEN "BufferEntryTooOldError" ELSE "",
                             !.evicted = Len(keys) + 1 - Len(r.keys)]
            /\ UNCHANGED <<cleared, uartVars, trkVars, selVars, aimVars, pickVars, reqVars, indVars, kmVars, grpVars, shVars, rxOpVars, mainVars, tfVars>>

BufClear ==
    /\ keys' = clear(keys, data).keys
    /\ data' = clear(keys, data).data
    /\ bufOp' = [NoOp EXCEPT !.op = "clear"]
    /\ cleared' = TRUE
    /\ UNCHANGED <<uartVars, trkVars, selVars, aimVars, pickVars, reqVars, indVars, kmVars, grpVars, shVars, rxOpVars, mainVars, tfVars>>

BufSearch ==
    \E t \in Times :
        LET r == search(keys, data, t)
        IN  /\ bufOp' = [NoOp EXCEPT !.op = "search", !.t = t, !.res = r,
                             !.raised = (r.kind = "IndexError"),
                             !.escaped = IF r.kind = "IndexError" THEN "IndexError" ELSE ""]
            /\ UNCHANGED <<keys, data, cleared, uartVars, trkVars, selVars, aimVars, pickVars, reqVars, indVars, kmVars, grpVars, shVars, rxOpVars, mainVars, tfVars>>

----------------------------------------------------------------------------
(* OdometryMessageHandler *)

ODOMETRY_MANUAL_TIME_OFFSET_USECS == 9000

\* the number of turrets a received OdometryMessage may declare
MaxTurrets == 2

\* handle(msg, timestamp): msg.turrets[0] is read first; then the state v built
\* from it is added under the key timestamp - offset, and BufferEntryTooOldError
\* is caught and logged
handle(k, d, num_turrets, timestamp, v) ==
    IF num_turrets = 0
    THEN [keys |-> k, data |-> d, raised |-> FALSE, escaped |-> "IndexError"]
    ELSE LET r == add(k, d, timestamp - ODOMETRY_MANUAL_TIME_OFFSET_USECS, v)
         IN  [keys |-> r.keys, data |-> r.data, raised |-> r.raised, escaped |-> ""]

OdometryHandle ==
    /\ Len(keys) <= MaxEntries
    /\ \E n \in 0..MaxTurrets, t \in Times, v \in Values :
        LET r == handle(keys, data, n, t + ODOMETRY_MANUAL_TIME_OFFSET_USECS, v)
        IN  /\ keys' = r.keys
            /\ data' = r.data
            /\ bufOp' = [NoOp EXCEPT !.op = "handle", !.t = t, !.v = v,
                             !.raised = r.raised, !.escaped = r.escaped,
                             !.evicted = IF r.raised \/ r.escaped # "" THEN 0
                                         ELSE Len(keys) + 1 - Len(r.keys)]
            /\ UNCHANGED <<cleared, uartVars, trkVars, selVars, aimVars, pickVars, reqVars, indVars, kmVars, grpVars, shVars, rxOpVars, mainVars, tfVars>>

----------------------------------------------------------------------------
(* uart/_crc.py: CRC-8/MAXIM-DOW and CRC-16/MCRF4XX, table driven.  A byte is *)
(* an integer in 0..255, bytes are sequences of them.                         *)

RECURSIVE Pow2(_)
Pow2(n) == IF n = 0 THEN 1 ELSE 2 * Pow2(n - 1)

\* a ^ b on naturals
RECURSIVE Xor(_, _)
Xor(a, b) ==
    IF a = 0 THEN b
    ELSE IF b = 0 THEN a
    ELSE ((a + b) % 2) + 2 * Xor(a \div 2, b \div 2)

\* the inner loop of compute_table, for j in range(0, 255, step):
\*     table[2**i + j] = crc ^ table[j]
\* every j is a multiple of step = 2**(i+1) and no index written, 2**i + j, is
\* one, so the loop reads only entries it does not write: one simultaneous update
TableFill(table, crc, i, step) ==
    [b \in 0..255 |->
        IF b >= Pow2(i) /\ (b - Pow2(i)) % step = 0 /\ b - Pow2(i) < 255
        THEN Xor(crc, table[b - Pow2(i)])
        ELSE table[b]]

\* the outer loop of compute_table: for i in reversed(range(8)), from i down to 0
RECURSIVE TableRows(_, _, _, _)
TableRows(table, crc, poly, i) ==
    LET crc1 == IF crc % 2 = 1 THEN Xor(crc \div 2, poly) ELSE crc \div 2
    IN  IF i < 0 THEN table
        ELSE TableRows(TableFill(table, crc1, i, Pow2(i + 1)), crc1, poly, i - 1)

compute_table(poly) == TableRows([b \in 0..255 |-> 0], 1, poly, 7)

CRC8_POLY == 140
CRC16_POLY == 33800

CRC8_TABLE == compute_table(CRC8_POLY)
CRC16_TABLE == compute_table(CRC16_POLY)

CRC8_INIT == 255
CRC16_INIT == 65535

\* the loop of crc8 over bytes[first..last], "for byte in data", run as the
\* loop over the first half and then, from its checksum, over the second half
RECURSIVE crc8_range(_, _, _, _)
crc8_range(bytes, first, last, checksum) ==
    IF first > last THEN checksum
    ELSE IF first = last THEN CRC8_TABLE[Xor(checksum, bytes[first])]
    ELSE LET middle == (first + last) \div 2
             left == crc8_range(bytes, first, middle, checksum)
         IN  IF left >= 0 THEN crc8_range(bytes, middle + 1, last, left) ELSE 0

\* crc8(data, crc_init)
crc8(bytes, checksum) == crc8_range(bytes, 1, Len(bytes), checksum)

\* the loop of crc16 over bytes[first..last], run in the same way
RECURSIVE crc16_range(_, _, _, _)
crc16_range(bytes, first, last, checksum) ==
    IF first > last THEN checksum
    ELSE IF first = last
    THEN Xor(checksum \div 256, CRC16_TABLE[Xor(checksum, bytes[first]) % 256])
    ELSE LET middle == (first + last) \div 2
             left == crc16_range(bytes, first, middle, checksum)
         IN  IF left >= 0 THEN crc16_range(bytes, middle + 1, last, left) ELSE 0

\* the loop of crc16(data, init_crc)
crc16_loop(bytes, checksum) == crc16_range(bytes, 1, Len(bytes), checksum)

crc16(bytes, init_crc) == crc16_loop(bytes, init_crc) % 65536

----------------------------------------------------------------------------
(* uart/_transceiver.py: the frame format and the receive state machine.      *)
(* A machine m gathers what one pass of process_in reads and writes:          *)
(*   m.rx     the Transceiver's fields                                        *)
(*   m.port   the bytes waiting in the serial port (in_waiting = Len)         *)
(*   m.calls  the handler invocations made so far, oldest first               *)
(*   m.raised the exception raised out of process_in, "" if none              *)
(*   m.num    num_processed_packets of the running process_in call            *)
(*   m.rejected  the last frame rejection logged or raised, "" if none        *)
(*   m.blocked   whether a serial.read asked for more bytes than were waiting *)

HEADER_START == 165
HEADER_SIZE == 4
MSG_TYPE_SIZE == 2
FOOTER_SIZE == 2

\* TransceiverConfiguration.discarded_bytes_warning_threshold
DISCARDED_BYTES_WARNING_THRESHOLD == 20

\* struct.pack("<H", n) and struct.unpack("<H", b)
PackU16(n) == <<n % 256, n \div 256>>

UnpackU16(b) == b[1] + 256 * b[2]

\* Transceiver.send(msg, seq_num): the package written, for msg.get_type_id() =
\* type_id and msg.serialize() = bytes
send(type_id, bytes, seq_num) ==
    LET start == <<HEADER_START>> \o PackU16(Len(bytes)) \o <<seq_num>>
        header == start \o <<crc8(start, CRC8_INIT)>>
        body == PackU16(type_id) \o bytes
    IN  header \o body \o PackU16(crc16(header \o body, CRC16_INIT))

\* the type ids of the handlers main registers (_build_message_handlers)
HandlerTypes == {1, 6, 7, 8, 9}

NoMessage == [cls |-> "", val |-> 0]

\* handler.msg_class.parse(msg_data) of the message class of type_id: whether it
\* returns, and the message it returns
parse(type_id, bytes) ==
    CASE type_id = 1 ->
           IF Len(bytes) >= 29 /\ Len(bytes) = 29 + 12 * bytes[29]
           THEN [ok |-> TRUE, msg |-> [cls |-> "OdometryMessage", val |-> bytes[29]]]
           ELSE [ok |-> FALSE, msg |-> NoMessage]
      [] type_id = 6 ->
           IF Len(bytes) = 1
           THEN [ok |-> TRUE, msg |-> [cls |-> "RefereeRobotIDMessage", val |-> bytes[1]]]
           ELSE [ok |-> FALSE, msg |-> NoMessage]
      [] type_id = 7 ->
           IF Len(bytes) = 4
           THEN [ok |-> TRUE,
                 msg |-> [cls |-> "SelectNewTargetMessage",
                          val |-> bytes[1] + 256 * bytes[2] + 65536 * bytes[3]
                                  + 16777216 * bytes[4]]]
           ELSE [ok |-> FALSE, msg |-> NoMessage]
      [] type_id = 8 -> [ok |-> TRUE, msg |-> [cls |-> "RebootMessage", val |-> 0]]
      [] type_id = 9 -> [ok |-> TRUE, msg |-> [cls |-> "ShutdownMessage", val |-> 0]]
      [] OTHER -> [ok |-> FALSE, msg |-> NoMessage]

\* the exception handler.handle(msg, timestamp) raises, "" if it returns:
\* OdometryMessageHandler reads msg.turrets[0]
handle_raises(msg) ==
    IF msg.cls = "OdometryMessage" /\ msg.val = 0 THEN "IndexError" ELSE ""

\* Transceiver.__init__
NewRx ==
    [state |-> "WAITING_FOR_HEADER", msg_len |-> 0, running_crc16 |-> 0,
     last_header_receipt_timestamp |-> None,
     thrown_since_message |-> 0, thrown_since_log |-> 0]

\* a reset_states that leaves the fields as they are
reset_states_Kept(r) == r

\* reset_states()
reset_states(r) ==
    [r EXCEPT !.state = "WAITING_FOR_HEADER", !.msg_len = 0, !.running_crc16 = 0]

DropBytes(bytes, n) == SubSeq(bytes, n + 1, Len(bytes))

\* process_in, state WAITING_FOR_HEADER: read one byte
WaitingStep(m, t) ==
    LET found == Head(m.port) = HEADER_START
        log == IF found THEN m.rx.thrown_since_log ELSE m.rx.thrown_since_log + 1
    IN  [m EXCEPT
            !.port = Tail(@),
            !.rx.state = IF found THEN "READING_HEADER" ELSE @,
            !.rx.last_header_receipt_timestamp = IF found THEN Some(t) ELSE @,
            !.rx.thrown_since_message = IF found THEN 0 ELSE @ + 1,
            !.rx.thrown_since_log =
                IF log > DISCARDED_BYTES_WARNING_THRESHOLD THEN 0 ELSE log]

\* a receiver that starts the header CRC-8 from 0 instead of CRC8_INIT
HeaderCrcOk_InitZero(header_bytes) ==
    crc8(<<HEADER_START>> \o SubSeq(header_bytes, 1, 3), 0) = header_bytes[4]

\* the header CRC-8 check
HeaderCrcOk(header_bytes) ==
    crc8(<<HEADER_START>> \o SubSeq(header_bytes, 1, 3), CRC8_INIT) = header_bytes[4]

\* process_in, state READING_HEADER: read HEADER_SIZE bytes
HeaderStep(m) ==
    LET header_bytes == SubSeq(m.port, 1, HEADER_SIZE)
        ok == HeaderCrcOk(header_bytes)
    IN  [m EXCEPT
            !.port = DropBytes(@, HEADER_SIZE),
            !.rx.msg_len = UnpackU16(header_bytes),
            !.rx.state = IF ok THEN "READING_BODY" ELSE "WAITING_FOR_HEADER",
            !.rx.running_crc16 =
                IF ok THEN crc16(<<HEADER_START>> \o header_bytes, CRC16_INIT) ELSE @,
            !.num = IF ok THEN @ ELSE @ + 1,
            !.rejected = IF ok THEN @ ELSE "header_crc"]

body_size(m) == MSG_TYPE_SIZE + m.rx.msg_len + FOOTER_SIZE

\* a receiver that does not compare the CRC-16
BodyCrcOk_Skipped(running, received_crc16) == TRUE

\* the body CRC-16 check
BodyCrcOk(running, received_crc16) == running = received_crc16

\* process_in, state READING_BODY: read type, data and footer, check, dispatch
BodyStep(m) ==
    LET n == m.rx.msg_len
        msg_type_raw == SubSeq(m.port, 1, MSG_TYPE_SIZE)
        msg_data == SubSeq(m.port, MSG_TYPE_SIZE + 1, MSG_TYPE_SIZE + n)
        received_crc16 == UnpackU16(SubSeq(m.port, MSG_TYPE_SIZE + n + 1, body_size(m)))
        msg_type == UnpackU16(msg_type_raw)
        running == crc16(msg_type_raw \o msg_data, m.rx.running_crc16)
        read == [m EXCEPT !.port = DropBytes(@, body_size(m)),
                          !.rx.running_crc16 = running]
        parsed == parse(msg_type, msg_data)
        call == [type |-> msg_type, msg |-> parsed.msg,
                 timestamp |-> m.rx.last_header_receipt_timestamp]
    IN  IF ~BodyCrcOk(running, received_crc16)
        THEN [read EXCEPT !.rx.state = "WAITING_FOR_HEADER", !.num = @ + 1,
                          !.rejected = "body_crc"]
        ELSE IF msg_type \notin HandlerTypes
        THEN [read EXCEPT !.rx = reset_states(@), !.num = @ + 1]
        ELSE IF ~parsed.ok
        THEN [read EXCEPT !.rx = reset_states(@), !.num = @ + 1,
                          !.rejected = "parse",
                          !.raised = "MessageParseUnhandledError"]
        ELSE IF handle_raises(parsed.msg) # ""
        THEN [read EXCEPT !.calls = Append(@, call),
                          !.raised = handle_raises(parsed.msg)]
        ELSE [read EXCEPT !.calls = Append(@, call), !.rx = reset_states(@),
                          !.num = @ + 1]

\* a receiver that never looks at in_waiting before it reads
EnoughBuffered_Always(m, size) == TRUE

\* the test made before the reads of each state when max_packets is given:
\* not (self.serial.in_waiting < size)
EnoughBuffered(m, size) == Len(m.port) >= size

\* self.serial.read(size) with fewer than size bytes waiting: the call waits in
\* the read for bytes that have not arrived
ReadBlocks(m, size) == Len(m.port) < size

Blocked(m) == [m EXCEPT !.blocked = TRUE]

\* process_in(max_packets) with a packet cap: the while loop, from its condition
RECURSIVE process_in(_, _, _)
process_in(m, max_packets, t) ==
    IF ~(Len(m.port) # 0 /\ m.num < max_packets) THEN m
    ELSE IF m.rx.state = "WAITING_FOR_HEADER" /\ ~EnoughBuffered(m, 1) THEN m
    ELSE IF m.rx.state = "WAITING_FOR_HEADER" /\ ReadBlocks(m, 1) THEN Blocked(m)
    ELSE
      LET a == IF m.rx.state = "WAITING_FOR_HEADER" THEN WaitingStep(m, t) ELSE m
          b == IF a.rx.state = "READING_HEADER" THEN HeaderStep(a) ELSE a
          c == BodyStep(b)
      IN  IF a.rx.state = "READING_HEADER" /\ ~EnoughBuffered(a, HEADER_SIZE) THEN a
          ELSE IF a.rx.state = "READING_HEADER" /\ ReadBlocks(a, HEADER_SIZE)
          THEN Blocked(a)
          ELSE IF b.rx.state = "WAITING_FOR_HEADER" THEN process_in(b, max_packets, t)
          ELSE IF ~EnoughBuffered(b, body_size(b)) THEN b
          ELSE IF ReadBlocks(b, body_size(b)) THEN Blocked(b)
          ELSE IF c.raised # "" THEN c
          ELSE process_in(c, max_packets, t)

----------------------------------------------------------------------------
(* uart/_perservering_receiver.py *)

\* PerseveringReceiver.max_num_parse_errors of the receiver under analysis
MaxNumParseErrors == 2

TooManyParseErrors == "Exception: Too many messages failed to parse."

\* PerseveringReceiver.__init__; seen counts the MessageParseUnhandledError the
\* child has raised since construction, escaped is what process_in raised
NewPr == [error_counter |-> 0, seen |-> 0, escaped |-> ""]

\* the test that ends the perseverance: Exception raised when the counter
\* reaches max_num_parse_errors
TooMany(error_counter) == error_counter >= MaxNumParseErrors

\* the except clauses of PerseveringReceiver.process_in, for an exception raised
\* by child_receiver.process_in
pr_except(p, raised) ==
    IF raised = "MessageParseUnhandledError"
    THEN IF TooMany(p.error_counter + 1)
         THEN [p EXCEPT !.error_counter = 0, !.seen = @ + 1,
                        !.escaped = TooManyParseErrors]
         ELSE [p EXCEPT !.error_counter = @ + 1, !.seen = @ + 1]
    ELSE [p EXCEPT !.escaped = raised]

\* PerseveringReceiver.process_in(max_packets) with a packet cap: call the child
\* until it returns or an exception escapes
RECURSIVE pr_process_in(_, _, _, _)
pr_process_in(m, p, max_packets, t) ==
    LET c == process_in([m EXCEPT !.num = 0, !.raised = ""], max_packets, t)
        q == pr_except(p, c.raised)
    IN  IF c.raised = "" THEN [m |-> c, pr |-> p, returned |-> ~c.blocked]
        ELSE IF q.escaped # "" THEN [m |-> c, pr |-> q, returned |-> FALSE]
        ELSE pr_process_in(c, q, max_packets, t)

----------------------------------------------------------------------------
(* The serial link: what the sender writes, how it arrives, who reads it *)

\* message type ids the sender uses: 2 has no handler on this side
SentTypes == {2, 6, 8}

\* a whole frame, to be carried as the body of another frame
EmbeddedFrame == send(8, <<>>, 0)

\* message bodies the sender uses
SentBodies == {<<>>, <<HEADER_START>>, EmbeddedFrame}

\* sequence numbers the sender uses
SentSeqNums == {0, HEADER_START}

SentFrames == [type : SentTypes, body : SentBodies, seq_num : SentSeqNums]

\* frames of a stream of several: the first fails to parse, the second parses
StreamFrames ==
    {[type |-> 6, body |-> <<>>, seq_num |-> 0], [type |-> 8, body |-> <<>>, seq_num |-> 0]}

\* a stream holds at most MaxFrames frames
MaxFrames == 3

\* process_in is called with a cap of 1..MaxPackets packets
MaxPackets == 2

\* the clock is followed up to MaxClock
MaxClock == 1

FrameBytes(f) == send(f.type, f.body, f.seq_num)

RECURSIVE StreamBytes(_)
StreamBytes(frames) ==
    IF frames = <<>> THEN <<>> ELSE FrameBytes(Head(frames)) \o StreamBytes(Tail(frames))

\* the values a line error puts in place of byte b
CorruptValues(b) == {(b + 1) % 256, HEADER_START} \ {b}

Corrupt(bytes, idx, val) == IF idx = 0 THEN bytes ELSE [bytes EXCEPT ![idx] = val]

Modes == {"blocking", "capped"}

\* the body of an OdometryMessage that declares n turrets ("<L6fB", then "<L2f"
\* for each turret), every field zero
OdometryBody(n) == [i \in 1..(29 + 12 * n) |-> IF i = 29 THEN n ELSE 0]

OdometryFrames == {[type |-> 1, body |-> OdometryBody(n), seq_num |-> 0] : n \in 0..MaxTurrets}

\* one frame, intact or with one byte changed, or a stream of intact frames
Scenarios ==
    {[frames |-> <<f>>, cidx |-> 0, cval |-> 0, mode |-> md] :
        f \in SentFrames \cup OdometryFrames, md \in Modes}
    \cup
    UNION {UNION {{[frames |-> <<f>>, cidx |-> i, cval |-> v, mode |-> md] :
                        v \in CorruptValues(FrameBytes(f)[i]), md \in Modes} :
                    i \in 1..Len(FrameBytes(f))} :
            f \in SentFrames}
    \cup
    {[frames |-> fs, cidx |-> 0, cval |-> 0, mode |-> md] :
        fs \in UNION {[1..n -> StreamFrames] : n \in 2..MaxFrames}, md \in Modes}

Machine ==
    [rx |-> rx, port |-> port, calls |-> calls, raised |-> "", num |-> 0,
     rejected |-> "", blocked |-> FALSE]

\* no read or call of the receiver made yet
NoRxOp == [call |-> "none", returned |-> FALSE, blocked |-> FALSE, rejected |-> ""]

\* bytes reach the serial port: the next one, or all that are left
SerialArrive ==
    /\ wire # <<>>
    /\ \E k \in {1, Len(wire)} :
        /\ port' = port \o SubSeq(wire, 1, k)
        /\ wire' = DropBytes(wire, k)
    /\ UNCHANGED <<rx, calls, pr, scen, now, bufVars, trkVars, selVars, aimVars, pickVars, reqVars, indVars, kmVars, grpVars, shVars, rxOpVars, mainVars, tfVars>>

\* the clock get_current_time reads advances, up to MaxClock
Tick ==
    /\ now < MaxClock
    /\ now' = now + 1
    /\ UNCHANGED <<rx, port, calls, pr, wire, scen, bufVars, trkVars, selVars, aimVars, pickVars, reqVars, indVars, kmVars, grpVars, shVars, rxOpVars, mainVars, tfVars>>

\* the receive thread, inside PerseveringReceiver.process_in() without a cap, runs
\* the next read of the Transceiver's loop once the bytes it blocks for are there
Commit(m) ==
    /\ rx' = m.rx
    /\ port' = m.port
    /\ calls' = m.calls
    /\ pr' = IF m.raised = "" THEN pr ELSE pr_except(pr, m.raised)
    /\ rxOp' = [call |-> "blocking", returned |-> FALSE, blocked |-> FALSE,
                rejected |-> m.rejected]
    /\ UNCHANGED <<wire, scen, now, bufVars, trkVars, selVars, aimVars, pickVars, reqVars, indVars, kmVars, grpVars, shVars, mainVars, tfVars>>

ThreadRuns == scen.mode = "blocking" /\ pr.escaped = ""

RxWaiting ==
    /\ ThreadRuns
    /\ rx.state = "WAITING_FOR_HEADER"
    /\ Len(port) >= 1
    /\ Commit(WaitingStep(Machine, now))

RxHeader ==
    /\ ThreadRuns
    /\ rx.state = "READING_HEADER"
    /\ Len(port) >= HEADER_SIZE
    /\ Commit(HeaderStep(Machine))

RxBody ==
    /\ ThreadRuns
    /\ rx.state = "READING_BODY"
    /\ Len(port) >= body_size(Machine)
    /\ Commit(BodyStep(Machine))

\* a caller polls PerseveringReceiver.process_in(max_packets)
ProcessIn ==
    /\ scen.mode = "capped"
    /\ pr.escaped = ""
    /\ \E max_packets \in 1..MaxPackets :
        LET r == pr_process_in(Machine, pr, max_packets, now)
        IN  /\ rx' = r.m.rx
            /\ port' = r.m.port
            /\ calls' = r.m.calls
            /\ pr' = r.pr
            /\ rxOp' = [call |-> "capped", returned |-> r.returned,
                        blocked |-> r.m.blocked, rejected |-> r.m.rejected]
    /\ UNCHANGED <<wire, scen, now, bufVars, trkVars, selVars, aimVars, pickVars, reqVars, indVars, kmVars, grpVars, shVars, mainVars, tfVars>>

----------------------------------------------------------------------------
(* target_tracker/_target_tracker.py, target_tracker/_tracked_target.py *)

\* positions lie on a line, at 0..MaxPos
MaxPos == 2

Positions == 0..MaxPos

\* frame timestamps run up to MaxFrameTime
MaxFrameTime == 3

\* a frame holds at most MaxMeasurements measurements
MaxMeasurements == 2

\* the tracker is followed while it holds at most MaxTargets targets
MaxTargets == 3

\* the tracker is followed while the ids it issues are at most MaxId
MaxId == 4

\* TrackerConfiguration.max_distance of the tracker under analysis
max_distance == 2

\* TrackerConfiguration.max_staleness of the tracker under analysis
max_staleness == 1

\* Position.distance
distance(a, b) == Abs(a - b)

\* TrackedTarget.__init__ followed, in the subclass constructor, by
\* update_from_new_position_measurement(init_measurement, init_timestamp)
NewTarget(measurement, timestamp, instance_id) ==
    [instance_id |-> instance_id,
     latest_observed_timestamp |-> timestamp,
     latest_observed_position |-> measurement,
     latest_update_timestamp |-> timestamp]

\* update_from_new_position_measurement
update_from_new_position_measurement(target, measurement, timestamp) ==
    [target EXCEPT !.latest_observed_timestamp = timestamp,
                   !.latest_observed_position = measurement,
                   !.latest_update_timestamp = timestamp]

\* update_from_extrapolation
update_from_extrapolation(target, timestamp) ==
    [target EXCEPT !.latest_update_timestamp = timestamp]

\* a tracker that also takes a measurement exactly as far as the nearest so far
RECURSIVE nearest_measurement_OrEqual(_, _, _, _, _)
nearest_measurement_OrEqual(extrapolated_position, measured_targets_list, j, nearest, nearest_distance) ==
    IF j > Len(measured_targets_list) THEN nearest
    ELSE LET d == distance(extrapolated_position, measured_targets_list[j])
         IN  IF d <= nearest_distance
             THEN nearest_measurement_OrEqual(extrapolated_position,
                        measured_targets_list, j + 1, Some(measured_targets_list[j]), d)
             ELSE nearest_measurement_OrEqual(extrapolated_position,
                        measured_targets_list, j + 1, nearest, nearest_distance)

\* the inner loop of update: the measurement nearest to the extrapolated
\* position, among those closer than the nearest so far, starting at max_distance
RECURSIVE nearest_measurement(_, _, _, _, _)
nearest_measurement(extrapolated_position, measured_targets_list, j, nearest, nearest_distance) ==
    IF j > Len(measured_targets_list) THEN nearest
    ELSE LET d == distance(extrapolated_position, measured_targets_list[j])
         IN  IF d < nearest_distance
             THEN nearest_measurement(extrapolated_position, measured_targets_list,
                                      j + 1, Some(measured_targets_list[j]), d)
             ELSE nearest_measurement(extrapolated_position, measured_targets_list,
                                      j + 1, nearest, nearest_distance)

\* list.remove(x): without the first element equal to x
RECURSIVE remove(_, _)
remove(list, x) ==
    IF list = <<>> THEN <<>>
    ELSE IF Head(list) = x THEN Tail(list)
    ELSE <<Head(list)>> \o remove(Tail(list), x)

\* a tracker that drops a target already at max_staleness
NotStale_Strict(target, timestamp) ==
    timestamp - target.latest_observed_timestamp < max_staleness

\* the staleness test of an unmatched target
NotStale(target, timestamp) ==
    timestamp - target.latest_observed_timestamp <= max_staleness

\* the first loop of update, from target i on; st holds new_targets, what is left
\* of measured_targets_list, and the fate of each target handled so far
RECURSIVE correlate(_, _, _, _, _)
correlate(old, i, extrapolated, timestamp, st) ==
    IF i > Len(old) THEN st
    ELSE
      LET target == old[i]
          nearest == nearest_measurement(extrapolated[i], st.measured_targets_list, 1,
                                         None, max_distance)
      IN  IF nearest # None
          THEN correlate(old, i + 1, extrapolated, timestamp,
                 [new_targets |-> Append(st.new_targets,
                      update_from_new_position_measurement(target, nearest[1], timestamp)),
                  measured_targets_list |-> remove(st.measured_targets_list, nearest[1]),
                  fates |-> Append(st.fates, [fate |-> "measured", with |-> nearest,
                                              left |-> st.measured_targets_list])])
          ELSE IF NotStale(target, timestamp)
          THEN correlate(old, i + 1, extrapolated, timestamp,
                 [st EXCEPT !.new_targets =
                                Append(@, update_from_extrapolation(target, timestamp)),
                            !.fates = Append(@, [fate |-> "extrapolated", with |-> None,
                                                 left |-> st.measured_targets_list])])
          ELSE correlate(old, i + 1, extrapolated, timestamp,
                 [st EXCEPT !.fates = Append(@, [fate |-> "dropped", with |-> None,
                                                 left |-> st.measured_targets_list])])

\* a tracker that gives every target made in one update the same id
RECURSIVE create_SameId(_, _, _, _)
create_SameId(new_targets, measured_targets_list, timestamp, next_id) ==
    IF measured_targets_list = <<>>
    THEN [targets |-> new_targets, next_instance_id |-> next_id + 1]
    ELSE create_SameId(Append(new_targets,
                              NewTarget(Head(measured_targets_list), timestamp, next_id)),
                       Tail(measured_targets_list), timestamp, next_id)

\* the second loop of update: a new target for each measurement left
RECURSIVE create(_, _, _, _)
create(new_targets, measured_targets_list, timestamp, next_id) ==
    IF measured_targets_list = <<>>
    THEN [targets |-> new_targets, next_instance_id |-> next_id]
    ELSE create(Append(new_targets,
                       NewTarget(Head(measured_targets_list), timestamp, next_id)),
                Tail(measured_targets_list), timestamp, next_id + 1)

\* TargetTracker.update(measured_targets); extrapolated[i] is what
\* extrapolate_position returns for target i
update(old, next_id, measured_targets_list, timestamp, extrapolated) ==
    LET st == correlate(old, 1, extrapolated, timestamp,
                        [new_targets |-> <<>>,
                         measured_targets_list |-> measured_targets_list,
                         fates |-> <<>>])
        made == create(st.new_targets, st.measured_targets_list, timestamp, next_id)
    IN  [targets |-> made.targets, next_instance_id |-> made.next_instance_id,
         fates |-> st.fates]

\* the sets of measurements a frame can hold, each in an iteration order
MeasurementLists ==
    UNION {{ms \in [1..n -> Positions] : \A a, b \in 1..n : a # b => ms[a] # ms[b]} :
            n \in 0..MaxMeasurements}

NoUpdate ==
    [timestamp |-> 0, measured |-> <<>>, extrapolated |-> <<>>, before |-> <<>>,
     first_id |-> 1, fates |-> <<>>, issued_before |-> {}, issued |-> {}]

\* a frame's measurements reach the tracker; frames come in time order
TrackerUpdate ==
    /\ \E timestamp \in (trkOp.timestamp + 1)..MaxFrameTime :
       \E measured \in MeasurementLists :
       \E extrapolated \in [1..Len(targets) -> Positions] :
           LET r == update(targets, next_instance_id, measured, timestamp, extrapolated)
           IN  /\ Len(r.targets) <= MaxTargets
               /\ r.next_instance_id <= MaxId + 1
               /\ targets' = r.targets
               /\ next_instance_id' = r.next_instance_id
               /\ trkOp' = [timestamp |-> timestamp, measured |-> measured,
                            extrapolated |-> extrapolated, before |-> targets,
                            first_id |-> next_instance_id, fates |-> r.fates,
                            issued_before |-> trkOp.issued,
                            issued |-> trkOp.issued \cup
                                {r.targets[k].instance_id : k \in 1..Len(r.targets)}]
    /\ UNCHANGED <<bufVars, uartVars, selVars, aimVars, pickVars, reqVars, indVars, kmVars, grpVars, shVars, rxOpVars, mainVars, tfVars>>

----------------------------------------------------------------------------
(* filters/_low_pass_filter.py.  A filter value is a rational number, held as *)
(* its numerator over FilterScale; an interpolation coefficient c is held as  *)
(* the numerator of 1 - c over RetainDen, so that exp(-lambda * elapsed),     *)
(* which is (1 - c)^elapsed, is exact for a whole number of seconds.          *)

RetainDen == 4

\* the seconds over which a filter is followed: FilterScale keeps every value whole
FilterHorizon == 5

RECURSIVE Power(_, _)
Power(b, e) == IF e = 0 THEN 1 ELSE b * Power(b, e - 1)

FilterScale == Power(RetainDen, FilterHorizon)

Max(a, b) == IF a >= b THEN a ELSE b

\* LowPassFilter.__init__
LowPassFilter(initial_value, initial_time) ==
    [value |-> initial_value, latest_update_timestamp |-> initial_time]

\* (1 - alpha) * x0 + alpha * x1, where 1 - alpha is keep_num / keep_den
float_interpolation_function(keep_num, keep_den, x0, x1) ==
    (keep_num * x0 + (keep_den - keep_num) * x1) \div keep_den

Elapsed_AtLeastOne(f, current_time) == Max(1, current_time - f.latest_update_timestamp)

\* max(0.0, (current_time - self._latest_update_time_stamp).duration_seconds)
Elapsed(f, current_time) == Max(0, current_time - f.latest_update_timestamp)

\* LowPassFilter.update; retain_num / RetainDen is 1 - interpolation_coefficient
filter_update(f, retain_num, value, current_time) ==
    LET elapsed == Elapsed(f, current_time)
    IN  [value |-> float_interpolation_function(Power(retain_num, elapsed),
                       Power(RetainDen, elapsed), f.value, value),
         latest_update_timestamp |-> current_time]

----------------------------------------------------------------------------
(* beyblade_identification/_beyblade_indicator.py *)

\* 1 - enter_interpolation_coefficient (the slow filter) is EnterRetainNum / RetainDen
EnterRetainNum == 3

\* 1 - exit_interpolation_coefficient (the fast filter) is ExitRetainNum / RetainDen
ExitRetainNum == 1

\* indicator_threshold is ThresholdNum / ThresholdDen
ThresholdNum == 3

ThresholdDen == 8

\* float(value) of a bool
Float(b) == IF b THEN FilterScale ELSE 0

\* BeybladeIndicator.__init__
BeybladeIndicator(initial_time) ==
    [enter_filter |-> LowPassFilter(0, initial_time),
     exit_filter |-> LowPassFilter(0, initial_time)]

\* filter.value >= self._threshold
AtThreshold(f) == f.value * ThresholdDen >= ThresholdNum * FilterScale

IndicatorValue_EnterOnly(ind) == AtThreshold(ind.enter_filter)

\* BeybladeIndicator.value
indicator_value(ind) == AtThreshold(ind.enter_filter) /\ AtThreshold(ind.exit_filter)

\* BeybladeIndicator.update
indicator_update(ind, value, time_step) ==
    [enter_filter |-> filter_update(ind.enter_filter, EnterRetainNum, Float(value), time_step),
     exit_filter |-> filter_update(ind.exit_filter, ExitRetainNum, Float(value), time_step)]

----------------------------------------------------------------------------
(* beyblade_identification/_beyblade_identifier.py.  A tracked target is a    *)
(* record of what the selector and the identifier read of it: instance_id,    *)
(* latest_estimated_position, latest_estimated_velocity and                    *)
(* latest_update_timestamp; positions and velocities are integers on a line.  *)

\* BeybladeIdentifierConfiguration.max_radius
identifier_max_radius == 2

relative_velocity_magnitude_threshold == 1

\* min(robots, key = distance to the plate, default = None): the first of the nearest
RECURSIVE NearestRobotFrom(_, _, _, _)
NearestRobotFrom(robots, plate, i, best) ==
    IF i > Len(robots) THEN best
    ELSE NearestRobotFrom(robots, plate, i + 1,
             IF best = 0
                \/ distance(plate.latest_estimated_position, robots[i].latest_estimated_position)
                     < distance(plate.latest_estimated_position, robots[best].latest_estimated_position)
             THEN i ELSE best)

\* the index of the robot a plate is attributed to, 0 if none
AttributedRobot(robots, plate) ==
    LET b == NearestRobotFrom(robots, plate, 1, 0)
    IN  IF b # 0 /\ distance(robots[b].latest_estimated_position, plate.latest_estimated_position)
                      <= identifier_max_radius
        THEN b ELSE 0

RECURSIVE SumSeq(_)
SumSeq(s) == IF s = <<>> THEN 0 ELSE Head(s) + SumSeq(Tail(s))

\* robot_to_relative_velocity[robots[i].instance_id]
RelativeVelocities(robots, plates, i) ==
    LET mine == SelectSeq([k \in 1..Len(plates) |-> <<k, plates[k]>>],
                          LAMBDA kp : AttributedRobot(robots, kp[2]) # 0
                                      /\ robots[AttributedRobot(robots, kp[2])].instance_id
                                           = robots[i].instance_id)
    IN  [k \in 1..Len(mine) |->
            Abs(robots[i].latest_estimated_velocity - mine[k][2].latest_estimated_velocity)]

\* len(velocities) > 0 and sum(velocities) / len(velocities) >= threshold
InstantIndicator(velocities) ==
    /\ Len(velocities) > 0
    /\ SumSeq(velocities) >= relative_velocity_magnitude_threshold * Len(velocities)

IndexOfId(list, id) == CHOOSE i \in 1..Len(list) : list[i].instance_id = id

IdsOf(list) == {list[i].instance_id : i \in 1..Len(list)}

\* BeybladeIdentifier.update
identifier_update(tracked, robots, plates) ==
    LET kept == [id \in IdsOf(robots) |->
                    IF id \in DOMAIN tracked THEN tracked[id]
                    ELSE BeybladeIndicator(robots[IndexOfId(robots, id)].latest_update_timestamp)]
    IN  [id \in IdsOf(robots) |->
            LET i == IndexOfId(robots, id)
            IN  indicator_update(kept[id], InstantIndicator(RelativeVelocities(robots, plates, i)),
                                 robots[i].latest_update_timestamp)]

\* BeybladeIdentifier.is_robot_beyblading
is_robot_beyblading(tracked, robot) ==
    robot.instance_id \in DOMAIN tracked /\ indicator_value(tracked[robot.instance_id])

----------------------------------------------------------------------------
(* target_selection/_target_selector.py.  A selector is one of three callables *)
(* standing for what main.py builds: the first of the list, the last of the   *)
(* list, or nothing.                                                          *)

\* TargetSelectorConfiguration.max_radius
selector_max_radius == 2

Selectors == {"first", "last", "none"}

ApplySelector(selector, list) ==
    IF selector = "none" \/ list = <<>> THEN None
    ELSE IF selector = "first" THEN Some(list[1])
    ELSE Some(list[Len(list)])

\* TargetSelector.__init__: TargetSelectorUpdateState(lambda _: None, lambda _: None, [], [])
EmptyUpdateState ==
    [robot_selector |-> "none", plate_selector |-> "none", robots |-> <<>>, plates |-> <<>>]

\* TargetSelector._reselect_robot
_reselect_robot(update_state) == ApplySelector(update_state.robot_selector, update_state.robots)

\* Position.distance(robot_position, plate.latest_estimated_position) < self._max_radius
PlateInRadius(robot, plate) ==
    distance(robot.latest_estimated_position, plate.latest_estimated_position)
        < selector_max_radius

\* TargetSelector._reselect_plate
_reselect_plate(robot, update_state) ==
    IF robot # None
    THEN ApplySelector(update_state.plate_selector,
                       SelectSeq(update_state.plates, LAMBDA p : PlateInRadius(robot[1], p)))
    ELSE None

\* self._robot_target not in update_state.robots: the object is found by its identity
InList(robot, list) == \E i \in 1..Len(list) : list[i].instance_id = robot.instance_id

MustReselect_Always(robot, update_state) == TRUE

\* self._robot_target is None or self._robot_target not in update_state.robots
MustReselect(robot, update_state) ==
    robot = None \/ ~InList(robot[1], update_state.robots)

\* TargetSelector.update; a robot that stays selected is the object in the list
selector_update(robot, tracked, update_state) ==
    LET ran == MustReselect(robot, update_state)
        new_robot == IF ran THEN _reselect_robot(update_state)
                     ELSE Some(update_state.robots[IndexOfId(update_state.robots,
                                                             robot[1].instance_id)])
    IN  [tracked_robots |-> identifier_update(tracked, update_state.robots, update_state.plates),
         last_update_state |-> update_state,
         robot_target |-> new_robot,
         plate_target |-> _reselect_plate(new_robot, update_state),
         ran_robot_selector |-> ran]

ReselectState_Empty(last) == EmptyUpdateState

\* the update state reselect works on
ReselectState(last) == last

\* TargetSelector.reselect
reselect(last) ==
    LET new_robot == _reselect_robot(ReselectState(last))
    IN  [robot_target |-> new_robot,
         plate_target |-> _reselect_plate(new_robot, ReselectState(last))]

Target_RobotFirst(robot, plate, tracked) == IF robot # None THEN robot ELSE plate

\* TargetSelector.target
selector_target(robot, plate, tracked) ==
    IF robot = None \/ is_robot_beyblading(tracked, robot[1]) THEN robot ELSE plate

----------------------------------------------------------------------------
(* main.py: what the main loop hands to the TargetSelector each frame *)

MaxSelTime == 2

\* the seconds between two frames
FramePeriod == 2

MaxSelPos == 3

TrackedTarget(id, position, velocity, timestamp) ==
    [instance_id |-> id, latest_estimated_position |-> position,
     latest_estimated_velocity |-> velocity, latest_update_timestamp |-> timestamp]

\* the robot tracker's targets at frame time t: robot 1 at one end, robot 2 at the other
RobotLists(t) ==
    LET r1 == TrackedTarget(1, 0, 0, t)
        r2 == TrackedTarget(2, MaxSelPos, 0, t)
    IN  {<<>>, <<r1>>, <<r2>>, <<r1, r2>>}

\* the plate tracker's targets: plate 1 moves, plate 2 stands still
PlateLists(t) ==
    LET P1 == {TrackedTarget(1, p, 2, t) : p \in {1, 2}}
        p2 == TrackedTarget(2, 2, 0, t)
    IN  {<<>>, <<p2>>} \cup {<<a>> : a \in P1} \cup {<<a, p2>> : a \in P1}

\* the selectors the main loop builds, as <<robot_selector, plate_selector>>
SelectorPairs == {<<"first", "last">>, <<"last", "first">>}

\* no call made yet
NoCall ==
    [kind |-> "init", ran_robot_selector |-> FALSE, time |-> 0, robot_changed |-> FALSE,
     repeated |-> FALSE]

\* main.py 455-462: self._target_selector.update(TargetSelectorUpdateState(...))
SelUpdate ==
    /\ \E t \in {selOp.time, selOp.time + FramePeriod} \cap (0..MaxSelTime) :
       \E robots \in RobotLists(t), plates \in PlateLists(t) :
       \E sp \in SelectorPairs :
        LET r == selector_update(robot_target, tracked_robots,
                     [robot_selector |-> sp[1], plate_selector |-> sp[2],
                      robots |-> robots, plates |-> plates])
        IN  /\ robot_target' = r.robot_target
            /\ plate_target' = r.plate_target
            /\ last_update_state' = r.last_update_state
            /\ tracked_robots' = r.tracked_robots
            /\ selOp' = [kind |-> "update", ran_robot_selector |-> r.ran_robot_selector,
                         time |-> t, robot_changed |-> r.robot_target # robot_target,
                         repeated |-> selOp.kind = "update"
                                      /\ r.last_update_state = last_update_state]
    /\ UNCHANGED <<aim_message, bufVars, uartVars, trkVars, pickVars, reqVars, indVars, kmVars, grpVars, shVars, rxOpVars, mainVars, tfVars>>

\* main.py 464-477: a queued request was consumed, self._target_selector.reselect()
SelReselect ==
    /\ LET r == reselect(last_update_state)
       IN  /\ robot_target' = r.robot_target
           /\ plate_target' = r.plate_target
           /\ selOp' = [selOp EXCEPT !.kind = "reselect", !.ran_robot_selector = TRUE,
                                     !.robot_changed = r.robot_target # robot_target,
                                     !.repeated = FALSE]
    /\ UNCHANGED <<last_update_state, tracked_robots, aim_message, bufVars, uartVars, trkVars, pickVars, reqVars, indVars, kmVars, grpVars, shVars, rxOpVars, mainVars, tfVars>>

\* AutoAimTargetUpdateMessage.without_target
without_target(mcb_timestamp) ==
    [position |-> 0, velocity |-> 0, acceleration |-> 0, has_target |-> FALSE,
     mcb_timestamp |-> mcb_timestamp]

\* AutoAimTargetUpdateMessage.with_target
with_target(position, velocity, acceleration, mcb_timestamp) ==
    [position |-> position, velocity |-> velocity, acceleration |-> acceleration,
     has_target |-> TRUE, mcb_timestamp |-> mcb_timestamp]

\* the message _send_auto_aim_update_to_host builds from TargetSelector.target
AimMessage(aim, mcb_timestamp) ==
    IF aim = None THEN without_target(mcb_timestamp)
    ELSE with_target(aim[1].latest_estimated_position, aim[1].latest_estimated_velocity, 0,
                     mcb_timestamp)

\* MainApplication._send_auto_aim_update_to_host
SendAutoAimUpdate ==
    /\ selOp.kind # "init"
    /\ aim_message' = Some(AimMessage(selector_target(robot_target, plate_target, tracked_robots),
                                      selOp.time))
    /\ selOp' = [selOp EXCEPT !.kind = "send", !.repeated = FALSE]
    /\ UNCHANGED <<robot_target, plate_target, last_update_state, tracked_robots,
                   bufVars, uartVars, trkVars, pickVars, reqVars, indVars, kmVars, grpVars, shVars, rxOpVars, mainVars, tfVars>>

----------------------------------------------------------------------------
(* target_selection/_select_target.py.  A rule is its weight; a target is the *)
(* sequence of what each rule's get_score returns for it (None: invalid).     *)
(* Weights and scores are whole numbers of a common unit.                     *)

\* main.py _build_robot_selector: weights 0.5 and 2, in units of 0.5
RuleWeights == <<1, 4>>

MaxPickTargets == 3

MaxRuleScore == 1

\* the one threshold value tried when maximum_score_threshold is configured
PickThreshold == 4

\* _evaluate_target: the weighted sum over the rules from i on, None once a rule is invalid
RECURSIVE EvaluateFrom(_, _, _, _)
EvaluateFrom(rules, scores, i, weighted_score) ==
    IF i > Len(rules) THEN Some(weighted_score)
    ELSE IF scores[i] = None THEN None
    ELSE EvaluateFrom(rules, scores, i + 1, weighted_score + rules[i] * scores[i][1])

_evaluate_target(rules, scores) == EvaluateFrom(rules, scores, 1, 0)

UnderMaximumScore_OrEqual(threshold, score) == threshold = None \/ score <= threshold[1]

\* _is_under_maximum_score
UnderMaximumScore(threshold, score) == threshold = None \/ score < threshold[1]

\* valid_targets, as the indices of the targets kept, in list order
ValidTargets(threshold, rules, list) ==
    SelectSeq([i \in 1..Len(list) |-> i],
              LAMBDA i : /\ _evaluate_target(rules, list[i]) # None
                         /\ UnderMaximumScore(threshold, _evaluate_target(rules, list[i])[1]))

\* min(valid_targets, key = score): the first of the lowest
RECURSIVE MinFrom(_, _, _, _, _)
MinFrom(rules, list, valid, k, best) ==
    IF k > Len(valid) THEN best
    ELSE MinFrom(rules, list, valid, k + 1,
             IF _evaluate_target(rules, list[valid[k]])[1] < _evaluate_target(rules, list[best])[1]
             THEN valid[k] ELSE best)

\* select_target
select_target(threshold, rules, list) ==
    LET valid == ValidTargets(threshold, rules, list)
    IN  IF Len(valid) = 0 THEN None
        ELSE Some(MinFrom(rules, list, valid, 2, valid[1]))

RuleScores == {None} \cup {Some(x) : x \in 0..MaxRuleScore}

\* what the rules say of one target
TargetScores == [1..Len(RuleWeights) -> RuleScores]

\* the target lists tried
TargetLists == UNION {[1..n -> TargetScores] : n \in 0..MaxPickTargets}

Thresholds == {None, Some(PickThreshold)}

\* a call of select_target on the arguments drawn
SelectTarget ==
    /\ ~select_out.done
    /\ select_out' = [done |-> TRUE,
                      chosen |-> select_target(select_in.threshold, RuleWeights,
                                               select_in.targets)]
    /\ UNCHANGED <<select_in, bufVars, uartVars, trkVars, selVars, aimVars, reqVars, indVars, kmVars, grpVars, shVars, rxOpVars, mainVars, tfVars>>

----------------------------------------------------------------------------
(* host_communications/_select_new_target_request_manager.py.  The receiver   *)
(* thread calls register_new_selection_message, the main loop calls           *)
(* consume_queued_request and peek_queued_request; each statement under       *)
(* "with self._lock" is a step of its own.  A request carries, beside its     *)
(* request_id, the number of the registration that made it.                   *)

MaxRegistrations == 3

\* the most calls the main loop makes
MaxMainCalls == 3

\* msg.request_id
RequestIds == {7}

\* nothing registered, nothing returned
NoReturn ==
    [registered |-> 0, calls |-> 0, returned |-> <<>>, consumed |-> FALSE,
     last |-> [op |-> "none", value |-> None, after_consume |-> FALSE, repeated |-> FALSE]]

\* SelectNewTargetRequest(msg.request_id)
SelectNewTargetRequest(request_id, registration) ==
    [request_id |-> request_id, registration |-> registration]

AfterConsume_Kept(latest) == latest

\* consume_queued_request: self._latest_queued_request = None
AfterConsume(latest) == None

\* with self._lock: (enter)
Acquire(thread) == lock = "" /\ lock' = thread

\* register_new_selection_message is called with a message; the lock is taken
RegisterAcquire ==
    /\ pcs.receiver = "idle"
    /\ mgrOp.registered < MaxRegistrations
    /\ Acquire("receiver")
    /\ \E id \in RequestIds : locals' = [locals EXCEPT !.msg = Some(id)]
    /\ pcs' = [pcs EXCEPT !.receiver = "store"]
    /\ UNCHANGED <<latest_queued_request, mgrOp, bufVars, uartVars, trkVars, selVars, aimVars, pickVars, indVars, kmVars, grpVars, shVars, rxOpVars, mainVars, tfVars>>

\* self._latest_queued_request = SelectNewTargetRequest(msg.request_id)
RegisterStore ==
    /\ pcs.receiver = "store"
    /\ latest_queued_request' =
           Some(SelectNewTargetRequest(locals.msg[1], mgrOp.registered + 1))
    /\ mgrOp' = [mgrOp EXCEPT !.registered = @ + 1, !.consumed = FALSE]
    /\ pcs' = [pcs EXCEPT !.receiver = "release"]
    /\ UNCHANGED <<lock, locals, bufVars, uartVars, trkVars, selVars, aimVars, pickVars, indVars, kmVars, grpVars, shVars, rxOpVars, mainVars, tfVars>>

\* with self._lock: (exit)
RegisterRelease ==
    /\ pcs.receiver = "release"
    /\ lock' = ""
    /\ locals' = [locals EXCEPT !.msg = None]
    /\ pcs' = [pcs EXCEPT !.receiver = "idle"]
    /\ UNCHANGED <<latest_queued_request, mgrOp, bufVars, uartVars, trkVars, selVars, aimVars, pickVars, indVars, kmVars, grpVars, shVars, rxOpVars, mainVars, tfVars>>

\* main.py 465: consume_queued_request is called; the lock is taken
ConsumeAcquire ==
    /\ pcs.main = "idle"
    /\ mgrOp.calls < MaxMainCalls
    /\ Acquire("main")
    /\ pcs' = [pcs EXCEPT !.main = "read"]
    /\ mgrOp' = [mgrOp EXCEPT !.calls = @ + 1]
    /\ UNCHANGED <<latest_queued_request, locals, bufVars, uartVars, trkVars, selVars, aimVars, pickVars, indVars, kmVars, grpVars, shVars, rxOpVars, mainVars, tfVars>>

\* latest_request = self._latest_queued_request
ConsumeRead ==
    /\ pcs.main = "read"
    /\ locals' = [locals EXCEPT !.latest_request = latest_queued_request]
    /\ pcs' = [pcs EXCEPT !.main = "clear"]
    /\ UNCHANGED <<latest_queued_request, lock, mgrOp, bufVars, uartVars, trkVars, selVars, aimVars, pickVars, indVars, kmVars, grpVars, shVars, rxOpVars, mainVars, tfVars>>

\* self._latest_queued_request = None
ConsumeClear ==
    /\ pcs.main = "clear"
    /\ latest_queued_request' = AfterConsume(latest_queued_request)
    /\ pcs' = [pcs EXCEPT !.main = "return"]
    /\ UNCHANGED <<lock, locals, mgrOp, bufVars, uartVars, trkVars, selVars, aimVars, pickVars, indVars, kmVars, grpVars, shVars, rxOpVars, mainVars, tfVars>>

\* return latest_request, leaving the lock
ConsumeReturn ==
    /\ pcs.main = "return"
    /\ lock' = ""
    /\ mgrOp' = [mgrOp EXCEPT
                    !.returned = IF locals.latest_request = None THEN @
                                 ELSE Append(@, locals.latest_request[1].registration),
                    !.consumed = TRUE,
                    !.last = [op |-> "consume", value |-> locals.latest_request,
                              after_consume |-> mgrOp.consumed,
                              repeated |-> /\ locals.latest_request # None
                                           /\ \E k \in 1..Len(mgrOp.returned) :
                                                mgrOp.returned[k]
                                                  = locals.latest_request[1].registration]]
    /\ locals' = [locals EXCEPT !.latest_request = None]
    /\ pcs' = [pcs EXCEPT !.main = "idle"]
    /\ UNCHANGED <<latest_queued_request, bufVars, uartVars, trkVars, selVars, aimVars, pickVars, indVars, kmVars, grpVars, shVars, rxOpVars, mainVars, tfVars>>

\* peek_queued_request is called; the lock is taken
PeekAcquire ==
    /\ pcs.main = "idle"
    /\ mgrOp.calls < MaxMainCalls
    /\ Acquire("main")
    /\ pcs' = [pcs EXCEPT !.main = "peek"]
    /\ mgrOp' = [mgrOp EXCEPT !.calls = @ + 1]
    /\ UNCHANGED <<latest_queued_request, locals, bufVars, uartVars, trkVars, selVars, aimVars, pickVars, indVars, kmVars, grpVars, shVars, rxOpVars, mainVars, tfVars>>

\* return self._latest_queued_request, leaving the lock
PeekReturn ==
    /\ pcs.main = "peek"
    /\ lock' = ""
    /\ mgrOp' = [mgrOp EXCEPT
                    !.last = [op |-> "peek", value |-> latest_queued_request,
                              after_consume |-> mgrOp.consumed, repeated |-> FALSE]]
    /\ pcs' = [pcs EXCEPT !.main = "idle"]
    /\ UNCHANGED <<latest_queued_request, locals, bufVars, uartVars, trkVars, selVars, aimVars, pickVars, indVars, kmVars, grpVars, shVars, rxOpVars, mainVars, tfVars>>

----------------------------------------------------------------------------
(* A BeybladeIndicator on its own: updates with timestamps that never go back *)

\* the most seconds between two updates
MaxElapsed == 2

\* no update made yet
NoIndicatorUpdate == [input |-> FALSE, before |-> FALSE, value |-> FALSE, updates |-> 0]

\* indicator.update(value, time_step), then a read of indicator.value
IndicatorUpdate ==
    /\ \E input \in BOOLEAN, elapsed \in 0..MaxElapsed :
        LET t == indicator.enter_filter.latest_update_timestamp + elapsed
        IN  /\ t <= FilterHorizon
            /\ indicator' = indicator_update(indicator, input, t)
            /\ indOp' = [input |-> input, before |-> indOp.value,
                         value |-> indicator_value(indicator'),
                         updates |-> IF indOp.updates < 2 THEN indOp.updates + 1 ELSE 2]
    /\ UNCHANGED <<bufVars, uartVars, trkVars, selVars, aimVars, pickVars, reqVars, kmVars, grpVars, shVars, rxOpVars, mainVars, tfVars>>

----------------------------------------------------------------------------
(* robot_clustering/_variable_k_means.py.  A tracked center is a LowPassFilter *)
(* over positions; positions are integers on a line, in units of 1/KScale.    *)

\* the seconds over which the centers are followed
MaxKTime == 2

KScale == Power(RetainDen, MaxKTime)

\* observed positions are 0..MaxKPos, in whole units
MaxKPos == 2

MaxObservations == 2

MaxCenters == 3

\* VariableKMeans._max_radius, in whole units
kmeans_max_radius == 1

\* VariableKMeans._age_limit, in seconds
age_limit == 1

\* 1 - interpolation_coefficient is CenterRetainNum / RetainDen
CenterRetainNum == 2

\* TimestampedPosition
TimestampedPosition(timestamp, position) == [timestamp |-> timestamp, position |-> position]

\* the least distance from a position to the values of the filters in a set, -1 if none
NearestDistance(filters, among, position) ==
    IF among = {} THEN -1
    ELSE CHOOSE d \in {distance(filters[i].value, position) : i \in among} :
            \A i \in among : d <= distance(filters[i].value, position)

TooFar_OrEqual(d) == d >= kmeans_max_radius * KScale

\* Position.distance(best_center.value, target.position) > self._max_radius
TooFar(d) == d > kmeans_max_radius * KScale

\* the loop over observed_targets from the k-th on: every outcome it can have, min over
\* the set available_centers returning any of the nearest
RECURSIVE AssignFrom(_, _, _, _, _, _)
AssignFrom(filters, available, observed_targets, k, new_centers, log) ==
    IF k > Len(observed_targets)
    THEN {[filters |-> filters, new_centers |-> new_centers, log |-> log]}
    ELSE LET obs == observed_targets[k]
             d == NearestDistance(filters, available, obs.position)
             entry == [position |-> obs.position,
                       nearest_existing |->
                           NearestDistance(filters, 1..Len(filters), obs.position),
                       nearest_available |-> d]
         IN  IF available = {} \/ TooFar(d)
             THEN AssignFrom(filters, available, observed_targets, k + 1,
                      Append(new_centers, LowPassFilter(obs.position, obs.timestamp)),
                      Append(log, [decision |-> "spawn", filter |-> 0, distance |-> -1]
                                      @@ entry))
             ELSE UNION {AssignFrom(
                             [filters EXCEPT ![b] = filter_update(filters[b], CenterRetainNum,
                                                        obs.position, obs.timestamp)],
                             available \ {b}, observed_targets, k + 1, new_centers,
                             Append(log, [decision |-> "update", filter |-> b,
                                          distance |-> distance(filters[b].value,
                                                                obs.position)] @@ entry)) :
                         b \in {i \in available :
                                   distance(filters[i].value, obs.position) = d}}

KeptByAge_OrEqual(f, current_time) == current_time - f.latest_update_timestamp <= age_limit

\* (current_time - x.latest_update_timestamp) < self._age_limit
KeptByAge(f, current_time) == current_time - f.latest_update_timestamp < age_limit

\* VariableKMeans.centers
centers(filters) == [i \in 1..Len(filters) |-> filters[i].value]

\* VariableKMeans.update: every outcome it can have
kmeans_update(filters, observed_targets, current_time) ==
    {[tracked_centers |-> SelectSeq(r.filters, LAMBDA f : KeptByAge(f, current_time))
                              \o r.new_centers,
      updated |-> r.filters, new_centers |-> r.new_centers, log |-> r.log] :
        r \in AssignFrom(filters, 1..Len(filters), observed_targets, 1, <<>>, <<>>)}

\* the lists of center estimates the grouper hands over, all of one timestamp
ObservationLists(t) ==
    UNION {[1..n -> {TimestampedPosition(t, p * KScale) : p \in 0..MaxKPos}] :
              n \in 0..MaxObservations}

\* no update made yet
NoKMeansUpdate ==
    [current_time |-> 0, before |-> <<>>, updated |-> <<>>, new_centers |-> <<>>,
     log |-> <<>>, centers |-> <<>>, updates |-> 0]

\* RobotClusterer.update: self._variable_k_means.update(grouped_target_positions, current_time);
\* the estimates are stamped with this frame's time or the one before, never with a
\* time before a filter's latest update
KMeansUpdate ==
    /\ \E current_time \in {kmOp.current_time, kmOp.current_time + 1} \cap (0..MaxKTime) :
       \E t \in {current_time - 1, current_time} \cap (0..MaxKTime) :
       \E observed_targets \in ObservationLists(t) :
       \E r \in kmeans_update(tracked_centers, observed_targets, current_time) :
           /\ Len(r.tracked_centers) <= MaxCenters
           /\ \A i \in 1..Len(tracked_centers) : tracked_centers[i].latest_update_timestamp <= t
           /\ tracked_centers' = r.tracked_centers
           /\ kmOp' = [current_time |-> current_time, before |-> tracked_centers,
                       updated |-> r.updated, new_centers |-> r.new_centers, log |-> r.log,
                       centers |-> centers(r.tracked_centers),
                       updates |-> 1]
    /\ UNCHANGED <<bufVars, uartVars, trkVars, selVars, aimVars, pickVars, reqVars, indVars, grpVars, shVars, rxOpVars, mainVars, tfVars>>

----------------------------------------------------------------------------
(* robot_clustering/_target_grouper.py.  A plate is its index in the list     *)
(* given; its position is an integer on a line.  A center estimate holds      *)
(* twice its position, so that the mean of two plates is a whole number, and  *)
(* the plates it came from (partner 0: the plate alone).                      *)

MaxPlates == 4

MaxPlatePos == 4

\* TargetGrouper._min_radius
grouper_min_radius == 1

\* TargetGrouper._max_radius
grouper_max_radius == 2

\* TargetGrouper._satisfactory
_satisfactory(a, b) ==
    grouper_min_radius <= distance(a, b) /\ distance(a, b) <= grouper_max_radius

\* twice Position.mean(a, b)
TwiceMean(a, b) == a + b

\* satisfying_targets: the plates of targets_set that may pair with the target
SatisfyingTargets(list, i, targets_set) ==
    {x \in targets_set : _satisfactory(list[i], list[x])}

\* min(satisfying_targets, key = distance): any of the nearest, the list coming from a set
NearestSatisfying(list, i, satisfying) ==
    {x \in satisfying :
        \A y \in satisfying : distance(list[i], list[x]) <= distance(list[i], list[y])}

AfterPairing_Kept(targets_set, best) == targets_set

\* targets_set.remove(best)
AfterPairing(targets_set, best) == targets_set \ {best}

\* the loop of group_targets from the i-th target on: every outcome it can have
RECURSIVE GroupFrom(_, _, _, _)
GroupFrom(list, i, targets_set, center_estimates) ==
    IF i > Len(list) THEN {center_estimates}
    ELSE IF i \notin targets_set THEN GroupFrom(list, i + 1, targets_set, center_estimates)
    ELSE LET rest == targets_set \ {i}
             satisfying == SatisfyingTargets(list, i, rest)
         IN  IF satisfying = {}
             THEN GroupFrom(list, i + 1, rest,
                      Append(center_estimates,
                             [twice_position |-> 2 * list[i], target |-> i, best |-> 0]))
             ELSE UNION {GroupFrom(list, i + 1, AfterPairing(rest, best),
                             Append(center_estimates,
                                    [twice_position |-> TwiceMean(list[i], list[best]),
                                     target |-> i, best |-> best])) :
                         best \in NearestSatisfying(list, i, satisfying)}

\* TargetGrouper.group_targets: every outcome it can have
group_targets(list) == GroupFrom(list, 1, 1..Len(list), <<>>)

\* the plate lists tried
PlateListsToGroup == UNION {[1..n -> 0..MaxPlatePos] : n \in 0..MaxPlates}

\* RobotClusterer.update: self._target_grouper.group_targets(targets)
GroupTargets ==
    /\ ~group_out.done
    /\ \E r \in group_targets(group_in) :
           group_out' = [done |-> TRUE, center_estimates |-> r]
    /\ UNCHANGED <<group_in, bufVars, uartVars, trkVars, selVars, aimVars, pickVars, reqVars, indVars, kmVars, shVars, rxOpVars, mainVars, tfVars>>

----------------------------------------------------------------------------
(* The odometry buffer shared by two threads (main.py 169, 278, 402-405).  The *)
(* receiver thread runs add, one statement a step; the main loop reads the     *)
(* buffer through search, which takes self._lock, and through the properties   *)
(* num_entries, oldest_timestamp and latest_timestamp, which do not.  shOp     *)
(* remembers the buffer as it stood when the lock was last free (before), as   *)
(* the add in progress will leave it (after), and every such buffer that       *)
(* stood while the read in progress ran (seen).                                *)

\* the most reads the main loop makes
MaxReads == 2

Snapshot(k, d) == [keys |-> k, data |-> d]

NoRead ==
    [reads |-> 0, before |-> Snapshot(<<>>, <<>>), after |-> Snapshot(<<>>, <<>>),
     seen |-> {}, last |-> [op |-> "none", result |-> None, during_add |-> FALSE,
                            serialized |-> TRUE]]

\* with self._lock: (enter)
BufAcquire(thread) == buf_lock = "" /\ buf_lock' = thread

\* add(timestamp, value) is called by the receiver thread; the lock is taken
AddAcquire ==
    /\ buf_pcs.receiver = "idle"
    /\ BufAcquire("receiver")
    /\ \E t \in Times, v \in {"a"} :
         /\ buf_locals' = [buf_locals EXCEPT !.timestamp = t, !.value = v]
         /\ LET r == add(keys, data, t, v)
            IN  shOp' = [shOp EXCEPT !.after = Snapshot(r.keys, r.data),
                                     !.seen = IF buf_pcs.main = "idle" THEN {}
                                              ELSE @ \cup {Snapshot(r.keys, r.data)}]
    /\ buf_pcs' = [buf_pcs EXCEPT !.receiver = "check"]
    /\ UNCHANGED <<keys, data, bufOp, cleared, uartVars, trkVars, selVars, aimVars, pickVars, reqVars, indVars, kmVars, grpVars, rxOpVars, mainVars, tfVars>>

\* latest_timestamp = self.latest_timestamp; raise if the new key is not newer
AddCheck ==
    /\ buf_pcs.receiver = "check"
    /\ IF AddTooOld(keys, data, buf_locals.timestamp)
       THEN /\ buf_lock' = ""
            /\ buf_pcs' = [buf_pcs EXCEPT !.receiver = "idle"]
            /\ shOp' = [shOp EXCEPT !.before = shOp.after]
            /\ buf_locals' = [buf_locals EXCEPT !.timestamp = 0]
       ELSE /\ buf_pcs' = [buf_pcs EXCEPT !.receiver = "append_key"]
            /\ UNCHANGED <<buf_lock, shOp, buf_locals, rxOpVars, mainVars, tfVars>>
    /\ UNCHANGED <<keys, data, bufOp, cleared, uartVars, trkVars, selVars, aimVars, pickVars, reqVars, indVars, kmVars, grpVars, rxOpVars, mainVars, tfVars>>

\* self._keys.append(timestamp)
AddAppendKey ==
    /\ buf_pcs.receiver = "append_key"
    /\ keys' = Append(keys, buf_locals.timestamp)
    /\ buf_pcs' = [buf_pcs EXCEPT !.receiver = "append_data"]
    /\ UNCHANGED <<data, buf_lock, buf_locals, shOp, bufOp, cleared, uartVars, trkVars, selVars, aimVars, pickVars, reqVars, indVars, kmVars, grpVars, rxOpVars, mainVars, tfVars>>

\* self._data.append(value)
AddAppendData ==
    /\ buf_pcs.receiver = "append_data"
    /\ data' = Append(data, buf_locals.value)
    /\ buf_pcs' = [buf_pcs EXCEPT !.receiver = "expire"]
    /\ UNCHANGED <<keys, buf_lock, buf_locals, shOp, bufOp, cleared, uartVars, trkVars, selVars, aimVars, pickVars, reqVars, indVars, kmVars, grpVars, rxOpVars, mainVars, tfVars>>

\* _remove_expired_items: the loop condition; when it fails add returns and the
\* lock is released
AddExpireTest ==
    /\ buf_pcs.receiver = "expire"
    /\ IF ExpiredCond(keys, data, buf_locals.timestamp)
       THEN /\ buf_pcs' = [buf_pcs EXCEPT !.receiver = "pop_key"]
            /\ UNCHANGED <<buf_lock, shOp, buf_locals, rxOpVars, mainVars, tfVars>>
       ELSE /\ buf_lock' = ""
            /\ buf_pcs' = [buf_pcs EXCEPT !.receiver = "idle"]
            /\ shOp' = [shOp EXCEPT !.before = Snapshot(keys, data),
                                    !.after = Snapshot(keys, data)]
            /\ buf_locals' = [buf_locals EXCEPT !.timestamp = 0]
    /\ UNCHANGED <<keys, data, bufOp, cleared, uartVars, trkVars, selVars, aimVars, pickVars, reqVars, indVars, kmVars, grpVars, rxOpVars, mainVars, tfVars>>

\* _ = self._keys.pop(0)
AddPopKey ==
    /\ buf_pcs.receiver = "pop_key"
    /\ keys' = PopFront(keys)
    /\ buf_pcs' = [buf_pcs EXCEPT !.receiver = "pop_data"]
    /\ UNCHANGED <<data, buf_lock, buf_locals, shOp, bufOp, cleared, uartVars, trkVars, selVars, aimVars, pickVars, reqVars, indVars, kmVars, grpVars, rxOpVars, mainVars, tfVars>>

\* _ = self._data.pop(0)
AddPopData ==
    /\ buf_pcs.receiver = "pop_data"
    /\ data' = PopFront(data)
    /\ buf_pcs' = [buf_pcs EXCEPT !.receiver = "expire"]
    /\ UNCHANGED <<keys, buf_lock, buf_locals, shOp, bufOp, cleared, uartVars, trkVars, selVars, aimVars, pickVars, reqVars, indVars, kmVars, grpVars, rxOpVars, mainVars, tfVars>>

\* the buffers a read that starts now may be serialized at
SeenNow == {shOp.before, shOp.after}

\* what a finished read is recorded as: its result, and whether it is among the
\* results (serial) the same read has on the buffers it may be serialized at
ReadDone(op, result, serial) ==
    [shOp EXCEPT !.seen = {},
                 !.last = [op |-> op, result |-> result,
                           during_add |-> buf_pcs.receiver # "idle",
                           serialized |-> result \in serial]]

\* main.py 402: search(frameset.time) is called; the lock is taken
SearchAcquire ==
    /\ buf_pcs.main = "idle"
    /\ shOp.reads < MaxReads
    /\ BufAcquire("main")
    /\ \E t \in Times : buf_locals' = [buf_locals EXCEPT !.search = t]
    /\ buf_pcs' = [buf_pcs EXCEPT !.main = "search"]
    /\ shOp' = [shOp EXCEPT !.reads = @ + 1, !.seen = SeenNow]
    /\ UNCHANGED <<keys, data, bufOp, cleared, uartVars, trkVars, selVars, aimVars, pickVars, reqVars, indVars, kmVars, grpVars, rxOpVars, mainVars, tfVars>>

\* search returns, leaving the lock
SearchReturn ==
    /\ buf_pcs.main = "search"
    /\ buf_lock' = ""
    /\ shOp' = ReadDone("search", search(keys, data, buf_locals.search),
                        {search(s.keys, s.data, buf_locals.search) : s \in shOp.seen})
    /\ buf_pcs' = [buf_pcs EXCEPT !.main = "idle"]
    /\ buf_locals' = [buf_locals EXCEPT !.search = 0]
    /\ UNCHANGED <<keys, data, bufOp, cleared, uartVars, trkVars, selVars, aimVars, pickVars, reqVars, indVars, kmVars, grpVars, rxOpVars, mainVars, tfVars>>

\* num_entries: return len(self._data)
ReadNumEntries ==
    /\ buf_pcs.main = "idle"
    /\ shOp.reads < MaxReads
    /\ shOp' = [ReadDone("num_entries", num_entries(data),
                         {num_entries(s.data) : s \in SeenNow})
                  EXCEPT !.reads = @ + 1]
    /\ UNCHANGED <<keys, data, buf_lock, buf_pcs, buf_locals, bufOp, cleared, uartVars, trkVars, selVars, aimVars, pickVars, reqVars, indVars, kmVars, grpVars, rxOpVars, mainVars, tfVars>>

\* oldest_timestamp and latest_timestamp: if len(self._data) == 0: return None
ReadTimestampTest ==
    /\ buf_pcs.main = "idle"
    /\ shOp.reads < MaxReads
    /\ \E which \in {"oldest_timestamp", "latest_timestamp"} :
         IF Len(data) = 0
         THEN /\ shOp' = [ReadDone(which, None,
                                   {IF which = "oldest_timestamp"
                                    THEN oldest_timestamp(s.keys, s.data)
                                    ELSE latest_timestamp(s.keys, s.data) : s \in SeenNow})
                            EXCEPT !.reads = @ + 1]
              /\ UNCHANGED buf_pcs
         ELSE /\ shOp' = [shOp EXCEPT !.reads = @ + 1, !.seen = SeenNow]
              /\ buf_pcs' = [buf_pcs EXCEPT !.main = which]
    /\ UNCHANGED <<keys, data, buf_lock, buf_locals, bufOp, cleared, uartVars, trkVars, selVars, aimVars, pickVars, reqVars, indVars, kmVars, grpVars, rxOpVars, mainVars, tfVars>>

\* oldest_timestamp: return self._keys[0]
ReadOldestReturn ==
    /\ buf_pcs.main = "oldest_timestamp"
    /\ shOp' = ReadDone("oldest_timestamp", Some(keys[1]),
                        {oldest_timestamp(s.keys, s.data) : s \in shOp.seen})
    /\ buf_pcs' = [buf_pcs EXCEPT !.main = "idle"]
    /\ UNCHANGED <<keys, data, buf_lock, buf_locals, bufOp, cleared, uartVars, trkVars, selVars, aimVars, pickVars, reqVars, indVars, kmVars, grpVars, rxOpVars, mainVars, tfVars>>

\* latest_timestamp: return self._keys[-1]
ReadLatestReturn ==
    /\ buf_pcs.main = "latest_timestamp"
    /\ shOp' = ReadDone("latest_timestamp", Some(keys[Len(keys)]),
                        {latest_timestamp(s.keys, s.data) : s \in shOp.seen})
    /\ buf_pcs' = [buf_pcs EXCEPT !.main = "idle"]
    /\ UNCHANGED <<keys, data, buf_lock, buf_locals, bufOp, cleared, uartVars, trkVars, selVars, aimVars, pickVars, reqVars, indVars, kmVars, grpVars, rxOpVars, mainVars, tfVars>>

----------------------------------------------------------------------------
(* main.py: main(), MainApplication as a context manager, and run_forever.     *)
(* The receive thread feeds the odometry buffer, the identity manager and the  *)
(* reselect request manager, or dies; the main loop takes one frame per        *)
(* iteration.  The trackers, the clusterer and the selector are counted by the *)
(* update calls made on them (their own behaviour is modelled above); an       *)
(* OdometryState is the record of its MCB timestamp.                           *)

\* the most frames the main loop takes
MaxIterations == 2

\* turret timestamps (MCB clock) the odometry messages carry
McbTimes == {100, 200}

\* OdometryState(chassis_position, turret_pitch, turret_yaw, turret_timestamp)
OdometryState(turret_timestamp) == [timestamp |-> turret_timestamp]

\* what TargetSelector.target may be when the message is built
AimTargets ==
    {None, Some([latest_estimated_position |-> 1, latest_estimated_velocity |-> 0])}

NoUpdates ==
    [plate_tracker |-> 0, robot_clusterer |-> 0, robot_tracker |-> 0,
     target_selector |-> 0, reselect |-> 0]

\* no frame taken yet
NoIteration ==
    [iterations |-> 0, frame_time |-> 0, skipped |-> FALSE, left_by |-> ""]

\* a terminate that leaves the HTTP server as it is
terminate_SerialOnly(r) == [r EXCEPT !.serial = "closed"]

\* MainApplication.terminate: self._mcb_comms_serial.close(),
\* self._webserver.shutdown(), self._webserver.server_close()
terminate(r) == [serial |-> "closed", webserver |-> "closed"]

\* the exit status of the interpreter when main() returns
EXIT_SUCCESS == 0

\* __enter__: initialize() returns - the serial port is open, the receive thread
\* and the web server run
Initialize ==
    /\ main_pc = "start"
    /\ resources' = [serial |-> "open", webserver |-> "serving"]
    /\ uart_thread_alive' = TRUE
    /\ main_pc' = "loop"
    /\ UNCHANGED <<keys, data, latest_queued_request, identity, exception, critical_log,
                   exit_code, updates, sent, mainOp, bufOp, cleared, uartVars, trkVars,
                   selVars, aimVars, pickVars, lock, pcs, locals, mgrOp, indVars, kmVars,
                   grpVars, shVars, rxOpVars, tfVars>>

\* __enter__: initialize() raises, before or after the serial port is opened;
\* __exit__ is not run for an exception raised by __enter__
InitializeRaises ==
    /\ main_pc = "start"
    /\ \E serial \in {"unopened", "open"} :
         resources' = [serial |-> serial, webserver |-> "none"]
    /\ exception' = "Exception"
    /\ main_pc' = "except"
    /\ UNCHANGED <<keys, data, latest_queued_request, identity, uart_thread_alive,
                   critical_log, exit_code, updates, sent, mainOp, bufOp, cleared, uartVars,
                   trkVars, selVars, aimVars, pickVars, lock, pcs, locals, mgrOp, indVars,
                   kmVars, grpVars, shVars, rxOpVars, tfVars>>

ReceiveThreadRuns == main_pc = "loop" /\ uart_thread_alive

\* the receive thread handles an OdometryMessage
ReceiveOdometry ==
    /\ ReceiveThreadRuns
    /\ \E t \in Times, mcb \in McbTimes :
         LET r == handle(keys, data, 1, t + ODOMETRY_MANUAL_TIME_OFFSET_USECS,
                         OdometryState(mcb))
         IN  keys' = r.keys /\ data' = r.data
    /\ UNCHANGED <<latest_queued_request, main_pc, uart_thread_alive, identity, resources,
                   exception, critical_log, exit_code, updates, sent, mainOp, bufOp, cleared,
                   uartVars, trkVars, selVars, aimVars, pickVars, lock, pcs, locals, mgrOp,
                   indVars, kmVars, grpVars, shVars, rxOpVars, tfVars>>

\* the receive thread handles a RefereeRobotIDMessage
ReceiveRobotId ==
    /\ ReceiveThreadRuns
    /\ identity' = Some("RED")
    /\ UNCHANGED <<keys, data, latest_queued_request, main_pc, uart_thread_alive, resources,
                   exception, critical_log, exit_code, updates, sent, mainOp, bufOp, cleared,
                   uartVars, trkVars, selVars, aimVars, pickVars, lock, pcs, locals, mgrOp,
                   indVars, kmVars, grpVars, shVars, rxOpVars, tfVars>>

\* the receive thread handles a SelectNewTargetMessage
ReceiveSelectNewTarget ==
    /\ ReceiveThreadRuns
    /\ \E id \in RequestIds :
         latest_queued_request' = Some(SelectNewTargetRequest(id, 0))
    /\ UNCHANGED <<keys, data, main_pc, uart_thread_alive, identity, resources, exception,
                   critical_log, exit_code, updates, sent, mainOp, bufOp, cleared, uartVars,
                   trkVars, selVars, aimVars, pickVars, lock, pcs, locals, mgrOp, indVars,
                   kmVars, grpVars, shVars, rxOpVars, tfVars>>

\* PerseveringReceiver.process_in raises in the receive thread: the thread ends
UartThreadDies ==
    /\ ReceiveThreadRuns
    /\ uart_thread_alive' = FALSE
    /\ UNCHANGED <<keys, data, latest_queued_request, main_pc, identity, resources, exception,
                   critical_log, exit_code, updates, sent, mainOp, bufOp, cleared, uartVars,
                   trkVars, selVars, aimVars, pickVars, lock, pcs, locals, mgrOp, indVars,
                   kmVars, grpVars, shVars, rxOpVars, tfVars>>

\* run_forever, top of the loop: the thread is dead - log and break
UartDiedBreak ==
    /\ main_pc = "loop"
    /\ ~uart_thread_alive
    /\ critical_log' = Append(critical_log, "UART Thread died, terminating...")
    /\ mainOp' = [mainOp EXCEPT !.left_by = "break"]
    /\ main_pc' = "exit_context"
    /\ UNCHANGED <<keys, data, latest_queued_request, uart_thread_alive, identity, resources,
                   exception, exit_code, updates, sent, bufOp, cleared, uartVars, trkVars,
                   selVars, aimVars, pickVars, lock, pcs, locals, mgrOp, indVars, kmVars,
                   grpVars, shVars, rxOpVars, tfVars>>

\* the frame is processed: the updates made and the message sent
Processed(odometry, aim) ==
    [updates |-> [updates EXCEPT !.plate_tracker = @ + 1, !.robot_clusterer = @ + 1,
                                 !.robot_tracker = @ + 1, !.target_selector = @ + 1,
                                 !.reselect = IF latest_queued_request = None
                                              THEN @ ELSE @ + 1],
     latest_queued_request |-> AfterConsume(latest_queued_request),
     sent |-> Append(sent, AimMessage(aim, odometry.value.timestamp))]

\* a skip that still takes the pending reselect request
Skipped_Consumes ==
    [updates |-> updates, latest_queued_request |-> AfterConsume(latest_queued_request),
     sent |-> sent]

\* the frame is skipped
Skipped ==
    [updates |-> updates, latest_queued_request |-> latest_queued_request, sent |-> sent]

\* the two "continue" of the loop body: no identity, or no odometry for the frame
FrameIsSkipped(id, odometry) == id = None \/ odometry.kind = "None"

\* run_forever, one iteration with the thread alive: a frame stamped t arrives
Iteration ==
    /\ main_pc = "loop"
    /\ uart_thread_alive
    /\ mainOp.iterations < MaxIterations
    /\ \E t \in Times, aim \in AimTargets :
         LET odometry == search(keys, data, t)
             skip == FrameIsSkipped(identity, odometry)
             r == IF skip THEN Skipped ELSE Processed(odometry, aim)
         IN  /\ updates' = r.updates
             /\ latest_queued_request' = r.latest_queued_request
             /\ sent' = r.sent
             /\ mainOp' = [mainOp EXCEPT !.iterations = @ + 1, !.frame_time = t,
                                         !.skipped = skip]
    /\ UNCHANGED <<keys, data, main_pc, uart_thread_alive, identity, resources, exception,
                   critical_log, exit_code, bufOp, cleared, uartVars, trkVars, selVars,
                   aimVars, pickVars, lock, pcs, locals, mgrOp, indVars, kmVars, grpVars,
                   shVars, rxOpVars, tfVars>>

\* run_forever: an exception is raised in the loop body (the frame source, the
\* detector) and leaves the loop
IterationRaises ==
    /\ main_pc = "loop"
    /\ uart_thread_alive
    /\ exception' = "Exception"
    /\ mainOp' = [mainOp EXCEPT !.left_by = "exception"]
    /\ main_pc' = "exit_context"
    /\ UNCHANGED <<keys, data, latest_queued_request, uart_thread_alive, identity, resources,
                   critical_log, exit_code, updates, sent, bufOp, cleared, uartVars, trkVars,
                   selVars, aimVars, pickVars, lock, pcs, locals, mgrOp, indVars, kmVars,
                   grpVars, shVars, rxOpVars, tfVars>>

\* __exit__: terminate(); an exception in flight goes on to main's except
ExitContext ==
    /\ main_pc = "exit_context"
    /\ resources' = terminate(resources)
    /\ main_pc' = "except"
    /\ UNCHANGED <<keys, data, latest_queued_request, uart_thread_alive, identity, exception,
                   critical_log, exit_code, updates, sent, mainOp, bufOp, cleared, uartVars,
                   trkVars, selVars, aimVars, pickVars, lock, pcs, locals, mgrOp, indVars,
                   kmVars, grpVars, shVars, rxOpVars, tfVars>>

\* main(): "except Exception" logs to the critical channel; main returns and the
\* interpreter exits
MainReturns ==
    /\ main_pc = "except"
    /\ critical_log' = IF exception = "" THEN critical_log
                       ELSE Append(critical_log, "Unhandled exception in main")
    /\ exit_code' = Some(EXIT_SUCCESS)
    /\ main_pc' = "exited"
    /\ UNCHANGED <<keys, data, latest_queued_request, uart_thread_alive, identity, resources,
                   exception, updates, sent, mainOp, bufOp, cleared, uartVars, trkVars,
                   selVars, aimVars, pickVars, lock, pcs, locals, mgrOp, indVars, kmVars,
                   grpVars, shVars, rxOpVars, tfVars>>

----------------------------------------------------------------------------
(* spatial/_transform.py, _orientation.py: Transform in exact arithmetic.      *)
(* A Position or Vector is the tuple of its coordinates.  An Orientation is    *)
(* kept as an integer quaternion q = <<w, x, y, z>> and stands for the unit    *)
(* quaternion q / sqrt(qnorm2(q)) that __post_init__ stores; the operations of *)
(* transforms3d are computed on q and divided by qnorm2(q) where the unit      *)
(* quaternion enters twice.  The orientations drawn are those whose rotation   *)
(* matrix has integer entries (the rotations that map the coordinate axes onto *)
(* each other), so every division is exact.                                    *)

\* the coordinates positions and translations are drawn from
Coordinates == {0, 2}

\* transforms3d.quaternions.qnorm, squared
qnorm2(q) == q[1] * q[1] + q[2] * q[2] + q[3] * q[3] + q[4] * q[4]

\* transforms3d.quaternions.qmult: the Hamilton product
qmult(q1, q2) ==
    <<q1[1] * q2[1] - q1[2] * q2[2] - q1[3] * q2[3] - q1[4] * q2[4],
      q1[1] * q2[2] + q1[2] * q2[1] + q1[3] * q2[4] - q1[4] * q2[3],
      q1[1] * q2[3] - q1[2] * q2[4] + q1[3] * q2[1] + q1[4] * q2[2],
      q1[1] * q2[4] + q1[2] * q2[3] - q1[3] * q2[2] + q1[4] * q2[1]>>

\* transforms3d.quaternions.qconjugate
qconjugate(q) == <<q[1], -q[2], -q[3], -q[4]>>

\* transforms3d.quaternions.rotate_vector(v, q) for the unit quaternion of q:
\* the vector part of q * (0, v) * conjugate(q)
rotate_vector(v, q) ==
    LET r == qmult(q, qmult(<<0, v[1], v[2], v[3]>>, qconjugate(q)))
        n == qnorm2(q)
    IN  <<r[2] \div n, r[3] \div n, r[4] \div n>>

\* transforms3d.quaternions.quat2mat for the unit quaternion of q
quat2mat(q) ==
    LET w == q[1]
        x == q[2]
        y == q[3]
        z == q[4]
        n == qnorm2(q)
    IN  <<<<(n - 2 * (y * y + z * z)) \div n, (2 * (x * y - w * z)) \div n,
            (2 * (x * z + w * y)) \div n>>,
          <<(2 * (x * y + w * z)) \div n, (n - 2 * (x * x + z * z)) \div n,
            (2 * (y * z - w * x)) \div n>>,
          <<(2 * (x * z - w * y)) \div n, (2 * (y * z + w * x)) \div n,
            (n - 2 * (x * x + y * y)) \div n>>>>

\* Orientation.conjugate
conjugate(rotation) == qconjugate(rotation)

\* Orientation.as_matrix
as_matrix(rotation) == quat2mat(rotation)

\* _rotate_vector
_rotate_vector(vector, rotation) == rotate_vector(vector, rotation)

\* numpy: a @ b for 3x3 matrices, and a.T
MatMul(a, b) ==
    [i \in 1..3 |-> [j \in 1..3 |-> a[i][1] * b[1][j] + a[i][2] * b[2][j] + a[i][3] * b[3][j]]]

Transpose(a) == [i \in 1..3 |-> [j \in 1..3 |-> a[j][i]]]

\* Transform(translation, rotation)
Transform(translation, rotation) == [translation |-> translation, rotation |-> rotation]

\* Transform.apply_to_vector
apply_to_vector(T, vector) == _rotate_vector(vector, conjugate(T.rotation))

\* Transform.apply_to_position
apply_to_position(T, position) ==
    LET un_rotated == <<position[1] - T.translation[1], position[2] - T.translation[2],
                        position[3] - T.translation[3]>>
    IN  apply_to_vector(T, un_rotated)

\* Transform.apply_to_linear_uncertainty
apply_to_linear_uncertainty(T, covariance) ==
    LET rotation_matrix == as_matrix(T.rotation)
    IN  MatMul(MatMul(rotation_matrix, covariance), Transpose(rotation_matrix))

\* Transform.apply_to_measured_position
apply_to_measured_position(T, measurement) ==
    [position |-> apply_to_position(T, measurement.position),
     uncertainty |-> apply_to_linear_uncertainty(T, measurement.uncertainty)]

\* an inverse that negates the translation without rotating it
get_inverse_Unrotated(T) ==
    Transform(<<-T.translation[1], -T.translation[2], -T.translation[3]>>,
              conjugate(T.rotation))

\* Transform.get_inverse
get_inverse(T) ==
    LET rot_inverse == conjugate(T.rotation)
        pos_negation == <<-T.translation[1], -T.translation[2], -T.translation[3]>>
        pos_inverse == _rotate_vector(pos_negation, rot_inverse)
    IN  Transform(pos_inverse, rot_inverse)

\* the variance of a covariance along a direction: d^T C d
VarianceAlong(covariance, d) ==
    LET Cd == [i \in 1..3 |-> covariance[i][1] * d[1] + covariance[i][2] * d[2]
                              + covariance[i][3] * d[3]]
    IN  d[1] * Cd[1] + d[2] * Cd[2] + d[3] * Cd[3]

\* the orientations whose rotation matrix has integer entries: the quaternions
\* of the 24 rotations of the cube, both signs
Orientations ==
    {q \in {-1, 0, 1} \X {-1, 0, 1} \X {-1, 0, 1} \X {-1, 0, 1} : qnorm2(q) \in {1, 2, 4}}

Translations == {<<0, 0, 0>>, <<2, -1, 0>>}

PositionsToMove == Coordinates \X Coordinates \X Coordinates

\* symmetric positive-semidefinite covariances: LinearUncertainty.from_variances
\* with equal and with unequal variances, and one with a covariance term
Covariances ==
    {<<<<1, 0, 0>>, <<0, 1, 0>>, <<0, 0, 1>>>>,
     <<<<1, 0, 0>>, <<0, 4, 0>>, <<0, 0, 9>>>>,
     <<<<2, 0, 1>>, <<0, 2, 0>>, <<1, 0, 2>>>>}

Directions == {<<1, 0, 0>>, <<0, 1, 0>>, <<0, 0, 1>>, <<1, 0, 1>>}

\* no call made yet
NoTfOp == [call |-> "none"]

\* T.apply_to_position(p)
TfApplyToPosition ==
    /\ \E p \in PositionsToMove :
         tfOp' = [call |-> "apply_to_position", position |-> p,
                  result |-> apply_to_position(transform, p)]
    /\ UNCHANGED <<transform, inverse, bufVars, reqVars, mainVars, bufOp, cleared, uartVars,
                   trkVars, selVars, aimVars, pickVars, lock, pcs, locals, mgrOp, indVars,
                   kmVars, grpVars, shVars, rxOpVars>>

\* T.get_inverse()
TfGetInverse ==
    /\ inverse = None
    /\ inverse' = Some(get_inverse(transform))
    /\ UNCHANGED <<transform, tfOp, bufVars, reqVars, mainVars, bufOp, cleared, uartVars,
                   trkVars, selVars, aimVars, pickVars, lock, pcs, locals, mgrOp, indVars,
                   kmVars, grpVars, shVars, rxOpVars>>

\* T.get_inverse().apply_to_position(q), q the position T gave last
TfInverseApplyToPosition ==
    /\ inverse # None
    /\ tfOp.call = "apply_to_position"
    /\ tfOp' = [call |-> "inverse.apply_to_position", original |-> tfOp.position,
                position |-> tfOp.result,
                result |-> apply_to_position(inverse[1], tfOp.result)]
    /\ UNCHANGED <<transform, inverse, bufVars, reqVars, mainVars, bufOp, cleared, uartVars,
                   trkVars, selVars, aimVars, pickVars, lock, pcs, locals, mgrOp, indVars,
                   kmVars, grpVars, shVars, rxOpVars>>

\* T.apply_to_vector(d)
TfApplyToVector ==
    /\ \E d \in Directions :
         tfOp' = [call |-> "apply_to_vector", vector |-> d,
                  result |-> apply_to_vector(transform, d)]
    /\ UNCHANGED <<transform, inverse, bufVars, reqVars, mainVars, bufOp, cleared, uartVars,
                   trkVars, selVars, aimVars, pickVars, lock, pcs, locals, mgrOp, indVars,
                   kmVars, grpVars, shVars, rxOpVars>>

\* T.apply_to_linear_uncertainty(C)
TfApplyToLinearUncertainty ==
    /\ \E C \in Covariances :
         tfOp' = [call |-> "apply_to_linear_uncertainty", uncertainty |-> C,
                  result |-> apply_to_linear_uncertainty(transform, C)]
    /\ UNCHANGED <<transform, inverse, bufVars, reqVars, mainVars, bufOp, cleared, uartVars,
                   trkVars, selVars, aimVars, pickVars, lock, pcs, locals, mgrOp, indVars,
                   kmVars, grpVars, shVars, rxOpVars>>

\* T.apply_to_measured_position(MeasuredPosition(p, C))
TfApplyToMeasuredPosition ==
    /\ \E p \in PositionsToMove, C \in Covariances :
         LET measurement == [position |-> p, uncertainty |-> C]
         IN  tfOp' = [call |-> "apply_to_measured_position", measurement |-> measurement,
                      result |-> apply_to_measured_position(transform, measurement)]
    /\ UNCHANGED <<transform, inverse, bufVars, reqVars, mainVars, bufOp, cleared, uartVars,
                   trkVars, selVars, aimVars, pickVars, lock, pcs, locals, mgrOp, indVars,
                   kmVars, grpVars, shVars, rxOpVars>>

----------------------------------------------------------------------------
(* The specifications *)

\* a buffer just constructed; the serial link is idle
BufInit ==
    /\ keys = <<>>
    /\ data = <<>>
    /\ bufOp = NoOp
    /\ cleared = FALSE
    /\ rx = NewRx
    /\ port = <<>>
    /\ calls = <<>>
    /\ pr = NewPr
    /\ now = 0
    /\ wire = <<>>
    /\ scen = [frames |-> <<>>, cidx |-> 0, cval |-> 0, mode |-> "blocking"]
    /\ targets = <<>>
    /\ next_instance_id = 1
    /\ trkOp = NoUpdate
    /\ robot_target = None
    /\ plate_target = None
    /\ last_update_state = [robot_selector |-> "none", plate_selector |-> "none", robots |-> <<>>, plates |-> <<>>]
    /\ tracked_robots = <<>>
    /\ selOp = NoCall
    /\ aim_message = None
    /\ select_in = [targets |-> <<>>, threshold |-> None]
    /\ select_out = [done |-> FALSE, chosen |-> None]
    /\ latest_queued_request = None
    /\ lock = ""
    /\ pcs = [receiver |-> "idle", main |-> "idle"]
    /\ locals = [msg |-> None, latest_request |-> None]
    /\ mgrOp = NoReturn
    /\ indicator = BeybladeIndicator(0)
    /\ indOp = NoIndicatorUpdate
    /\ tracked_centers = <<>>
    /\ kmOp = NoKMeansUpdate
    /\ group_in = <<>>
    /\ group_out = [done |-> FALSE, center_estimates |-> <<>>]
    /\ buf_lock = ""
    /\ buf_pcs = [receiver |-> "idle", main |-> "idle"]
    /\ buf_locals = [timestamp |-> 0, value |-> "a", search |-> 0]
    /\ shOp = NoRead
    /\ rxOp = NoRxOp
    /\ main_pc = "start"
    /\ uart_thread_alive = FALSE
    /\ identity = None
    /\ resources = [serial |-> "unopened", webserver |-> "none"]
    /\ exception = ""
    /\ critical_log = <<>>
    /\ exit_code = None
    /\ updates = NoUpdates
    /\ sent = <<>>
    /\ mainOp = NoIteration
    /\ transform = Transform(<<0, 0, 0>>, <<1, 0, 0, 0>>)
    /\ inverse = None
    /\ tfOp = NoTfOp

BufNext == BufAdd \/ BufClear \/ BufSearch \/ OdometryHandle

BufferSpec == BufInit /\ [][BufNext]_vars

\* a tracker just constructed; the buffer and the serial link are idle
TrackerInit ==
    /\ targets = <<>>
    /\ next_instance_id = 1
    /\ trkOp = NoUpdate
    /\ keys = <<>>
    /\ data = <<>>
    /\ bufOp = NoOp
    /\ cleared = FALSE
    /\ rx = NewRx
    /\ port = <<>>
    /\ calls = <<>>
    /\ pr = NewPr
    /\ now = 0
    /\ wire = <<>>
    /\ scen = [frames |-> <<>>, cidx |-> 0, cval |-> 0, mode |-> "blocking"]
    /\ robot_target = None
    /\ plate_target = None
    /\ last_update_state = [robot_selector |-> "none", plate_selector |-> "none", robots |-> <<>>, plates |-> <<>>]
    /\ tracked_robots = <<>>
    /\ selOp = NoCall
    /\ aim_message = None
    /\ select_in = [targets |-> <<>>, threshold |-> None]
    /\ select_out = [done |-> FALSE, chosen |-> None]
    /\ latest_queued_request = None
    /\ lock = ""
    /\ pcs = [receiver |-> "idle", main |-> "idle"]
    /\ locals = [msg |-> None, latest_request |-> None]
    /\ mgrOp = NoReturn
    /\ indicator = BeybladeIndicator(0)
    /\ indOp = NoIndicatorUpdate
    /\ tracked_centers = <<>>
    /\ kmOp = NoKMeansUpdate
    /\ group_in = <<>>
    /\ group_out = [done |-> FALSE, center_estimates |-> <<>>]
    /\ buf_lock = ""
    /\ buf_pcs = [receiver |-> "idle", main |-> "idle"]
    /\ buf_locals = [timestamp |-> 0, value |-> "a", search |-> 0]
    /\ shOp = NoRead
    /\ rxOp = NoRxOp
    /\ main_pc = "start"
    /\ uart_thread_alive = FALSE
    /\ identity = None
    /\ resources = [serial |-> "unopened", webserver |-> "none"]
    /\ exception = ""
    /\ critical_log = <<>>
    /\ exit_code = None
    /\ updates = NoUpdates
    /\ sent = <<>>
    /\ mainOp = NoIteration
    /\ transform = Transform(<<0, 0, 0>>, <<1, 0, 0, 0>>)
    /\ inverse = None
    /\ tfOp = NoTfOp

TrackerNext == TrackerUpdate

TrackerSpec == TrackerInit /\ [][TrackerNext]_vars

\* a receiver just constructed, a sender about to write; the buffer is not used
UartInit ==
    /\ rx = NewRx
    /\ port = <<>>
    /\ calls = <<>>
    /\ pr = NewPr
    /\ now = 0
    /\ scen \in Scenarios
    /\ wire = Corrupt(StreamBytes(scen.frames), scen.cidx, scen.cval)
    /\ keys = <<>>
    /\ data = <<>>
    /\ bufOp = NoOp
    /\ cleared = FALSE
    /\ targets = <<>>
    /\ next_instance_id = 1
    /\ trkOp = NoUpdate
    /\ robot_target = None
    /\ plate_target = None
    /\ last_update_state = [robot_selector |-> "none", plate_selector |-> "none", robots |-> <<>>, plates |-> <<>>]
    /\ tracked_robots = <<>>
    /\ selOp = NoCall
    /\ aim_message = None
    /\ select_in = [targets |-> <<>>, threshold |-> None]
    /\ select_out = [done |-> FALSE, chosen |-> None]
    /\ latest_queued_request = None
    /\ lock = ""
    /\ pcs = [receiver |-> "idle", main |-> "idle"]
    /\ locals = [msg |-> None, latest_request |-> None]
    /\ mgrOp = NoReturn
    /\ indicator = BeybladeIndicator(0)
    /\ indOp = NoIndicatorUpdate
    /\ tracked_centers = <<>>
    /\ kmOp = NoKMeansUpdate
    /\ group_in = <<>>
    /\ group_out = [done |-> FALSE, center_estimates |-> <<>>]
    /\ buf_lock = ""
    /\ buf_pcs = [receiver |-> "idle", main |-> "idle"]
    /\ buf_locals = [timestamp |-> 0, value |-> "a", search |-> 0]
    /\ shOp = NoRead
    /\ rxOp = NoRxOp
    /\ main_pc = "start"
    /\ uart_thread_alive = FALSE
    /\ identity = None
    /\ resources = [serial |-> "unopened", webserver |-> "none"]
    /\ exception = ""
    /\ critical_log = <<>>
    /\ exit_code = None
    /\ updates = NoUpdates
    /\ sent = <<>>
    /\ mainOp = NoIteration
    /\ transform = Transform(<<0, 0, 0>>, <<1, 0, 0, 0>>)
    /\ inverse = None
    /\ tfOp = NoTfOp

UartNext == SerialArrive \/ Tick \/ RxWaiting \/ RxHeader \/ RxBody \/ ProcessIn

UartSpec == UartInit /\ [][UartNext]_vars

\* a selector and an identifier just constructed; everything else is idle
SelectorInit ==
    /\ robot_target = None
    /\ plate_target = None
    /\ last_update_state = EmptyUpdateState
    /\ tracked_robots = <<>>
    /\ selOp = NoCall
    /\ aim_message = None
    /\ keys = <<>>
    /\ data = <<>>
    /\ bufOp = NoOp
    /\ cleared = FALSE
    /\ rx = NewRx
    /\ port = <<>>
    /\ calls = <<>>
    /\ pr = NewPr
    /\ now = 0
    /\ wire = <<>>
    /\ scen = [frames |-> <<>>, cidx |-> 0, cval |-> 0, mode |-> "blocking"]
    /\ targets = <<>>
    /\ next_instance_id = 1
    /\ trkOp = NoUpdate
    /\ select_in = [targets |-> <<>>, threshold |-> None]
    /\ select_out = [done |-> FALSE, chosen |-> None]
    /\ latest_queued_request = None
    /\ lock = ""
    /\ pcs = [receiver |-> "idle", main |-> "idle"]
    /\ locals = [msg |-> None, latest_request |-> None]
    /\ mgrOp = NoReturn
    /\ indicator = BeybladeIndicator(0)
    /\ indOp = NoIndicatorUpdate
    /\ tracked_centers = <<>>
    /\ kmOp = NoKMeansUpdate
    /\ group_in = <<>>
    /\ group_out = [done |-> FALSE, center_estimates |-> <<>>]
    /\ buf_lock = ""
    /\ buf_pcs = [receiver |-> "idle", main |-> "idle"]
    /\ buf_locals = [timestamp |-> 0, value |-> "a", search |-> 0]
    /\ shOp = NoRead
    /\ rxOp = NoRxOp
    /\ main_pc = "start"
    /\ uart_thread_alive = FALSE
    /\ identity = None
    /\ resources = [serial |-> "unopened", webserver |-> "none"]
    /\ exception = ""
    /\ critical_log = <<>>
    /\ exit_code = None
    /\ updates = NoUpdates
    /\ sent = <<>>
    /\ mainOp = NoIteration
    /\ transform = Transform(<<0, 0, 0>>, <<1, 0, 0, 0>>)
    /\ inverse = None
    /\ tfOp = NoTfOp

SelectorNext == SelUpdate \/ SelReselect \/ SendAutoAimUpdate

SelectorSpec == SelectorInit /\ [][SelectorNext]_vars

\* select_target about to be called on some arguments; everything else is idle
PickInit ==
    /\ select_in \in [targets : TargetLists, threshold : Thresholds]
    /\ keys = <<>>
    /\ data = <<>>
    /\ bufOp = NoOp
    /\ cleared = FALSE
    /\ rx = NewRx
    /\ port = <<>>
    /\ calls = <<>>
    /\ pr = NewPr
    /\ now = 0
    /\ wire = <<>>
    /\ scen = [frames |-> <<>>, cidx |-> 0, cval |-> 0, mode |-> "blocking"]
    /\ targets = <<>>
    /\ next_instance_id = 1
    /\ trkOp = NoUpdate
    /\ robot_target = None
    /\ plate_target = None
    /\ last_update_state = [robot_selector |-> "none", plate_selector |-> "none", robots |-> <<>>, plates |-> <<>>]
    /\ tracked_robots = <<>>
    /\ selOp = NoCall
    /\ aim_message = None
    /\ select_out = [done |-> FALSE, chosen |-> None]
    /\ latest_queued_request = None
    /\ lock = ""
    /\ pcs = [receiver |-> "idle", main |-> "idle"]
    /\ locals = [msg |-> None, latest_request |-> None]
    /\ mgrOp = NoReturn
    /\ indicator = BeybladeIndicator(0)
    /\ indOp = NoIndicatorUpdate
    /\ tracked_centers = <<>>
    /\ kmOp = NoKMeansUpdate
    /\ group_in = <<>>
    /\ group_out = [done |-> FALSE, center_estimates |-> <<>>]
    /\ buf_lock = ""
    /\ buf_pcs = [receiver |-> "idle", main |-> "idle"]
    /\ buf_locals = [timestamp |-> 0, value |-> "a", search |-> 0]
    /\ shOp = NoRead
    /\ rxOp = NoRxOp
    /\ main_pc = "start"
    /\ uart_thread_alive = FALSE
    /\ identity = None
    /\ resources = [serial |-> "unopened", webserver |-> "none"]
    /\ exception = ""
    /\ critical_log = <<>>
    /\ exit_code = None
    /\ updates = NoUpdates
    /\ sent = <<>>
    /\ mainOp = NoIteration
    /\ transform = Transform(<<0, 0, 0>>, <<1, 0, 0, 0>>)
    /\ inverse = None
    /\ tfOp = NoTfOp

PickNext == SelectTarget

PickSpec == PickInit /\ [][PickNext]_vars

\* a manager just constructed, both threads outside it; everything else is idle
RequestInit ==
    /\ keys = <<>>
    /\ data = <<>>
    /\ bufOp = NoOp
    /\ cleared = FALSE
    /\ rx = NewRx
    /\ port = <<>>
    /\ calls = <<>>
    /\ pr = NewPr
    /\ now = 0
    /\ wire = <<>>
    /\ scen = [frames |-> <<>>, cidx |-> 0, cval |-> 0, mode |-> "blocking"]
    /\ targets = <<>>
    /\ next_instance_id = 1
    /\ trkOp = NoUpdate
    /\ robot_target = None
    /\ plate_target = None
    /\ last_update_state = [robot_selector |-> "none", plate_selector |-> "none", robots |-> <<>>, plates |-> <<>>]
    /\ tracked_robots = <<>>
    /\ selOp = NoCall
    /\ aim_message = None
    /\ select_in = [targets |-> <<>>, threshold |-> None]
    /\ select_out = [done |-> FALSE, chosen |-> None]
    /\ latest_queued_request = None
    /\ lock = ""
    /\ pcs = [receiver |-> "idle", main |-> "idle"]
    /\ locals = [msg |-> None, latest_request |-> None]
    /\ mgrOp = NoReturn
    /\ indicator = BeybladeIndicator(0)
    /\ indOp = NoIndicatorUpdate
    /\ tracked_centers = <<>>
    /\ kmOp = NoKMeansUpdate
    /\ group_in = <<>>
    /\ group_out = [done |-> FALSE, center_estimates |-> <<>>]
    /\ buf_lock = ""
    /\ buf_pcs = [receiver |-> "idle", main |-> "idle"]
    /\ buf_locals = [timestamp |-> 0, value |-> "a", search |-> 0]
    /\ shOp = NoRead
    /\ rxOp = NoRxOp
    /\ main_pc = "start"
    /\ uart_thread_alive = FALSE
    /\ identity = None
    /\ resources = [serial |-> "unopened", webserver |-> "none"]
    /\ exception = ""
    /\ critical_log = <<>>
    /\ exit_code = None
    /\ updates = NoUpdates
    /\ sent = <<>>
    /\ mainOp = NoIteration
    /\ transform = Transform(<<0, 0, 0>>, <<1, 0, 0, 0>>)
    /\ inverse = None
    /\ tfOp = NoTfOp

RequestNext == RegisterAcquire \/ RegisterStore \/ RegisterRelease \/ ConsumeAcquire \/ ConsumeRead
                  \/ ConsumeClear \/ ConsumeReturn \/ PeekAcquire \/ PeekReturn

RequestSpec == RequestInit /\ [][RequestNext]_vars

\* an indicator just constructed at time 0; everything else is idle
IndicatorInit ==
    /\ keys = <<>>
    /\ data = <<>>
    /\ bufOp = NoOp
    /\ cleared = FALSE
    /\ rx = NewRx
    /\ port = <<>>
    /\ calls = <<>>
    /\ pr = NewPr
    /\ now = 0
    /\ wire = <<>>
    /\ scen = [frames |-> <<>>, cidx |-> 0, cval |-> 0, mode |-> "blocking"]
    /\ targets = <<>>
    /\ next_instance_id = 1
    /\ trkOp = NoUpdate
    /\ robot_target = None
    /\ plate_target = None
    /\ last_update_state = [robot_selector |-> "none", plate_selector |-> "none", robots |-> <<>>, plates |-> <<>>]
    /\ tracked_robots = <<>>
    /\ selOp = NoCall
    /\ aim_message = None
    /\ select_in = [targets |-> <<>>, threshold |-> None]
    /\ select_out = [done |-> FALSE, chosen |-> None]
    /\ latest_queued_request = None
    /\ lock = ""
    /\ pcs = [receiver |-> "idle", main |-> "idle"]
    /\ locals = [msg |-> None, latest_request |-> None]
    /\ mgrOp = NoReturn
    /\ indicator = BeybladeIndicator(0)
    /\ indOp = NoIndicatorUpdate
    /\ tracked_centers = <<>>
    /\ kmOp = NoKMeansUpdate
    /\ group_in = <<>>
    /\ group_out = [done |-> FALSE, center_estimates |-> <<>>]
    /\ buf_lock = ""
    /\ buf_pcs = [receiver |-> "idle", main |-> "idle"]
    /\ buf_locals = [timestamp |-> 0, value |-> "a", search |-> 0]
    /\ shOp = NoRead
    /\ rxOp = NoRxOp
    /\ main_pc = "start"
    /\ uart_thread_alive = FALSE
    /\ identity = None
    /\ resources = [serial |-> "unopened", webserver |-> "none"]
    /\ exception = ""
    /\ critical_log = <<>>
    /\ exit_code = None
    /\ updates = NoUpdates
    /\ sent = <<>>
    /\ mainOp = NoIteration
    /\ transform = Transform(<<0, 0, 0>>, <<1, 0, 0, 0>>)
    /\ inverse = None
    /\ tfOp = NoTfOp

IndicatorNext == IndicatorUpdate

IndicatorSpec == IndicatorInit /\ [][IndicatorNext]_vars

\* a VariableKMeans just constructed; everything else is idle
KMeansInit ==
    /\ keys = <<>>
    /\ data = <<>>
    /\ bufOp = NoOp
    /\ cleared = FALSE
    /\ rx = NewRx
    /\ port = <<>>
    /\ calls = <<>>
    /\ pr = NewPr
    /\ now = 0
    /\ wire = <<>>
    /\ scen = [frames |-> <<>>, cidx |-> 0, cval |-> 0, mode |-> "blocking"]
    /\ targets = <<>>
    /\ next_instance_id = 1
    /\ trkOp = NoUpdate
    /\ robot_target = None
    /\ plate_target = None
    /\ last_update_state = [robot_selector |-> "none", plate_selector |-> "none", robots |-> <<>>, plates |-> <<>>]
    /\ tracked_robots = <<>>
    /\ selOp = NoCall
    /\ aim_message = None
    /\ select_in = [targets |-> <<>>, threshold |-> None]
    /\ select_out = [done |-> FALSE, chosen |-> None]
    /\ latest_queued_request = None
    /\ lock = ""
    /\ pcs = [receiver |-> "idle", main |-> "idle"]
    /\ locals = [msg |-> None, latest_request |-> None]
    /\ mgrOp = NoReturn
    /\ indicator = BeybladeIndicator(0)
    /\ indOp = NoIndicatorUpdate
    /\ tracked_centers = <<>>
    /\ kmOp = NoKMeansUpdate
    /\ group_in = <<>>
    /\ group_out = [done |-> FALSE, center_estimates |-> <<>>]
    /\ buf_lock = ""
    /\ buf_pcs = [receiver |-> "idle", main |-> "idle"]
    /\ buf_locals = [timestamp |-> 0, value |-> "a", search |-> 0]
    /\ shOp = NoRead
    /\ rxOp = NoRxOp
    /\ main_pc = "start"
    /\ uart_thread_alive = FALSE
    /\ identity = None
    /\ resources = [serial |-> "unopened", webserver |-> "none"]
    /\ exception = ""
    /\ critical_log = <<>>
    /\ exit_code = None
    /\ updates = NoUpdates
    /\ sent = <<>>
    /\ mainOp = NoIteration
    /\ transform = Transform(<<0, 0, 0>>, <<1, 0, 0, 0>>)
    /\ inverse = None
    /\ tfOp = NoTfOp

KMeansNext == KMeansUpdate

KMeansSpec == KMeansInit /\ [][KMeansNext]_vars

\* group_targets about to be called on some plates; everything else is idle
GrouperInit ==
    /\ group_in \in PlateListsToGroup
    /\ keys = <<>>
    /\ data = <<>>
    /\ bufOp = NoOp
    /\ cleared = FALSE
    /\ rx = NewRx
    /\ port = <<>>
    /\ calls = <<>>
    /\ pr = NewPr
    /\ now = 0
    /\ wire = <<>>
    /\ scen = [frames |-> <<>>, cidx |-> 0, cval |-> 0, mode |-> "blocking"]
    /\ targets = <<>>
    /\ next_instance_id = 1
    /\ trkOp = NoUpdate
    /\ robot_target = None
    /\ plate_target = None
    /\ last_update_state = [robot_selector |-> "none", plate_selector |-> "none", robots |-> <<>>, plates |-> <<>>]
    /\ tracked_robots = <<>>
    /\ selOp = NoCall
    /\ aim_message = None
    /\ select_in = [targets |-> <<>>, threshold |-> None]
    /\ select_out = [done |-> FALSE, chosen |-> None]
    /\ latest_queued_request = None
    /\ lock = ""
    /\ pcs = [receiver |-> "idle", main |-> "idle"]
    /\ locals = [msg |-> None, latest_request |-> None]
    /\ mgrOp = NoReturn
    /\ indicator = BeybladeIndicator(0)
    /\ indOp = NoIndicatorUpdate
    /\ tracked_centers = <<>>
    /\ kmOp = NoKMeansUpdate
    /\ group_out = [done |-> FALSE, center_estimates |-> <<>>]
    /\ buf_lock = ""
    /\ buf_pcs = [receiver |-> "idle", main |-> "idle"]
    /\ buf_locals = [timestamp |-> 0, value |-> "a", search |-> 0]
    /\ shOp = NoRead
    /\ rxOp = NoRxOp
    /\ main_pc = "start"
    /\ uart_thread_alive = FALSE
    /\ identity = None
    /\ resources = [serial |-> "unopened", webserver |-> "none"]
    /\ exception = ""
    /\ critical_log = <<>>
    /\ exit_code = None
    /\ updates = NoUpdates
    /\ sent = <<>>
    /\ mainOp = NoIteration
    /\ transform = Transform(<<0, 0, 0>>, <<1, 0, 0, 0>>)
    /\ inverse = None
    /\ tfOp = NoTfOp

GrouperNext == GroupTargets

GrouperSpec == GrouperInit /\ [][GrouperNext]_vars

\* the odometry buffer between the receiver thread and the main loop
SharedBufferInit ==
    /\ keys = <<>>
    /\ data = <<>>
    /\ bufOp = NoOp
    /\ cleared = FALSE
    /\ rx = NewRx
    /\ port = <<>>
    /\ calls = <<>>
    /\ pr = NewPr
    /\ now = 0
    /\ wire = <<>>
    /\ scen = [frames |-> <<>>, cidx |-> 0, cval |-> 0, mode |-> "blocking"]
    /\ targets = <<>>
    /\ next_instance_id = 1
    /\ trkOp = NoUpdate
    /\ robot_target = None
    /\ plate_target = None
    /\ last_update_state = [robot_selector |-> "none", plate_selector |-> "none", robots |-> <<>>, plates |-> <<>>]
    /\ tracked_robots = <<>>
    /\ selOp = NoCall
    /\ aim_message = None
    /\ select_in = [targets |-> <<>>, threshold |-> None]
    /\ select_out = [done |-> FALSE, chosen |-> None]
    /\ latest_queued_request = None
    /\ lock = ""
    /\ pcs = [receiver |-> "idle", main |-> "idle"]
    /\ locals = [msg |-> None, latest_request |-> None]
    /\ mgrOp = NoReturn
    /\ indicator = BeybladeIndicator(0)
    /\ indOp = NoIndicatorUpdate
    /\ tracked_centers = <<>>
    /\ kmOp = NoKMeansUpdate
    /\ group_in = <<>>
    /\ group_out = [done |-> FALSE, center_estimates |-> <<>>]
    /\ buf_lock = ""
    /\ buf_pcs = [receiver |-> "idle", main |-> "idle"]
    /\ buf_locals = [timestamp |-> 0, value |-> "a", search |-> 0]
    /\ shOp = NoRead
    /\ rxOp = NoRxOp
    /\ main_pc = "start"
    /\ uart_thread_alive = FALSE
    /\ identity = None
    /\ resources = [serial |-> "unopened", webserver |-> "none"]
    /\ exception = ""
    /\ critical_log = <<>>
    /\ exit_code = None
    /\ updates = NoUpdates
    /\ sent = <<>>
    /\ mainOp = NoIteration
    /\ transform = Transform(<<0, 0, 0>>, <<1, 0, 0, 0>>)
    /\ inverse = None
    /\ tfOp = NoTfOp

SharedBufferNext == \/ AddAcquire \/ AddCheck \/ AddAppendKey \/ AddAppendData \/ AddExpireTest
    \/ AddPopKey \/ AddPopData \/ SearchAcquire \/ SearchReturn \/ ReadNumEntries
    \/ ReadTimestampTest \/ ReadOldestReturn \/ ReadLatestReturn

SharedBufferSpec == SharedBufferInit /\ [][SharedBufferNext]_vars

\* main() from its start: nothing initialized, the odometry buffer empty
MainInit ==
    /\ keys = <<>>
    /\ data = <<>>
    /\ bufOp = NoOp
    /\ cleared = FALSE
    /\ rx = NewRx
    /\ port = <<>>
    /\ calls = <<>>
    /\ pr = NewPr
    /\ now = 0
    /\ wire = <<>>
    /\ scen = [frames |-> <<>>, cidx |-> 0, cval |-> 0, mode |-> "blocking"]
    /\ targets = <<>>
    /\ next_instance_id = 1
    /\ trkOp = NoUpdate
    /\ robot_target = None
    /\ plate_target = None
    /\ last_update_state = [robot_selector |-> "none", plate_selector |-> "none", robots |-> <<>>, plates |-> <<>>]
    /\ tracked_robots = <<>>
    /\ selOp = NoCall
    /\ aim_message = None
    /\ select_in = [targets |-> <<>>, threshold |-> None]
    /\ select_out = [done |-> FALSE, chosen |-> None]
    /\ latest_queued_request = None
    /\ lock = ""
    /\ pcs = [receiver |-> "idle", main |-> "idle"]
    /\ locals = [msg |-> None, latest_request |-> None]
    /\ mgrOp = NoReturn
    /\ indicator = BeybladeIndicator(0)
    /\ indOp = NoIndicatorUpdate
    /\ tracked_centers = <<>>
    /\ kmOp = NoKMeansUpdate
    /\ group_in = <<>>
    /\ group_out = [done |-> FALSE, center_estimates |-> <<>>]
    /\ buf_lock = ""
    /\ buf_pcs = [receiver |-> "idle", main |-> "idle"]
    /\ buf_locals = [timestamp |-> 0, value |-> "a", search |-> 0]
    /\ shOp = NoRead
    /\ rxOp = NoRxOp
    /\ main_pc = "start"
    /\ uart_thread_alive = FALSE
    /\ identity = None
    /\ resources = [serial |-> "unopened", webserver |-> "none"]
    /\ exception = ""
    /\ critical_log = <<>>
    /\ exit_code = None
    /\ updates = NoUpdates
    /\ sent = <<>>
    /\ mainOp = NoIteration
    /\ transform = Transform(<<0, 0, 0>>, <<1, 0, 0, 0>>)
    /\ inverse = None
    /\ tfOp = NoTfOp

MainNext == \/ Initialize \/ InitializeRaises \/ ReceiveOdometry \/ ReceiveRobotId
    \/ ReceiveSelectNewTarget \/ UartThreadDies \/ UartDiedBreak \/ Iteration
    \/ IterationRaises \/ ExitContext \/ MainReturns

MainSpec == MainInit /\ [][MainNext]_vars

\* a Transform with any of the translations and orientations, no call made yet
TransformInit ==
    /\ transform \in {Transform(t, q) : t \in Translations, q \in Orientations}
    /\ keys = <<>>
    /\ data = <<>>
    /\ bufOp = NoOp
    /\ cleared = FALSE
    /\ rx = NewRx
    /\ port = <<>>
    /\ calls = <<>>
    /\ pr = NewPr
    /\ now = 0
    /\ wire = <<>>
    /\ scen = [frames |-> <<>>, cidx |-> 0, cval |-> 0, mode |-> "blocking"]
    /\ targets = <<>>
    /\ next_instance_id = 1
    /\ trkOp = NoUpdate
    /\ robot_target = None
    /\ plate_target = None
    /\ last_update_state = [robot_selector |-> "none", plate_selector |-> "none", robots |-> <<>>, plates |-> <<>>]
    /\ tracked_robots = <<>>
    /\ selOp = NoCall
    /\ aim_message = None
    /\ select_in = [targets |-> <<>>, threshold |-> None]
    /\ select_out = [done |-> FALSE, chosen |-> None]
    /\ latest_queued_request = None
    /\ lock = ""
    /\ pcs = [receiver |-> "idle", main |-> "idle"]
    /\ locals = [msg |-> None, latest_request |-> None]
    /\ mgrOp = NoReturn
    /\ indicator = BeybladeIndicator(0)
    /\ indOp = NoIndicatorUpdate
    /\ tracked_centers = <<>>
    /\ kmOp = NoKMeansUpdate
    /\ group_in = <<>>
    /\ group_out = [done |-> FALSE, center_estimates |-> <<>>]
    /\ buf_lock = ""
    /\ buf_pcs = [receiver |-> "idle", main |-> "idle"]
    /\ buf_locals = [timestamp |-> 0, value |-> "a", search |-> 0]
    /\ shOp = NoRead
    /\ rxOp = NoRxOp
    /\ main_pc = "start"
    /\ uart_thread_alive = FALSE
    /\ identity = None
    /\ resources = [serial |-> "unopened", webserver |-> "none"]
    /\ exception = ""
    /\ critical_log = <<>>
    /\ exit_code = None
    /\ updates = NoUpdates
    /\ sent = <<>>
    /\ mainOp = NoIteration
    /\ inverse = None
    /\ tfOp = NoTfOp

TransformNext == \/ TfApplyToPosition \/ TfGetInverse \/ TfInverseApplyToPosition
    \/ TfApplyToVector \/ TfApplyToLinearUncertainty \/ TfApplyToMeasuredPosition

TransformSpec == TransformInit /\ [][TransformNext]_vars


----------------------------------------------------------------------------
(* Properties of TimestampedHistoryBuffer, checked under BufferSpec *)

\* key i of k is nearest to t, and no key equally near is later
IsNearestLater(k, i, t) ==
    \A j \in 1..Len(k) :
        /\ Abs(k[i] - t) <= Abs(k[j] - t)
        /\ (Abs(k[j] - t) = Abs(k[i] - t) => k[j] <= k[i])

SearchContract(k, d, t, r) ==
    LET inRange == Len(d) > 0 /\ k[1] <= t /\ t <= k[Len(k)]
    IN  /\ (r.kind = "value") <=> inRange
        /\ r.kind = "value" =>
              \E i \in 1..Len(k) :
                  /\ IsNearestLater(k, i, t)
                  /\ i <= Len(d)
                  /\ r.pos = i - 1
                  /\ r.value = d[i]

\* C1: search(t) returns an entry iff the buffer is non-empty and
\* oldest_key <= t <= newest_key, and the entry returned is the one whose key is
\* nearest to t, the later key on a tie.
C1_SearchNearest ==
    bufOp.op = "search" => SearchContract(keys, data, bufOp.t, bufOp.res)

\* The same contract on a buffer that was never cleared.
SearchNearestIfNeverCleared ==
    (bufOp.op = "search" /\ ~cleared) => SearchContract(keys, data, bufOp.t, bufOp.res)

StrictlyIncreasing(k) == \A i \in 1..(Len(k) - 1) : k[i] < k[i + 1]

\* C2: in a run of add calls (no clear), after every add the keys are strictly
\* increasing, there are at most max_entries entries, one value per key, and
\* newest_key - oldest_key is at most maximum_entry_age.
C2_AddKeepsBounds ==
    ~cleared =>
        /\ StrictlyIncreasing(keys)
        /\ Len(keys) = Len(data)
        /\ Len(data) <= MaxEntries
        /\ Len(keys) > 0 => keys[Len(keys)] - keys[1] <= MaxEntryAge

\* an add succeeded, evicted an entry and left the buffer full
C2_Witness ==
    /\ ~cleared
    /\ bufOp.op = "add"
    /\ ~bufOp.raised
    /\ bufOp.evicted > 0
    /\ Len(data) = MaxEntries

\* C3: add(t, v) with t <= latest_timestamp raises BufferEntryTooOldError and
\* leaves _keys and _data as they were; called by OdometryMessageHandler.handle,
\* the error is caught there and does not escape.
C3_TooOldRejected ==
    [][ ( /\ bufOp'.op \in {"add", "handle"}
          /\ bufOp'.escaped # "IndexError"
          /\ latest_timestamp(keys, data) # None
          /\ bufOp'.t <= latest_timestamp(keys, data)[1] )
        => ( /\ bufOp'.raised
             /\ keys' = keys
             /\ data' = data
             /\ bufOp'.op = "add" => bufOp'.escaped = "BufferEntryTooOldError"
             /\ bufOp'.op = "handle" => bufOp'.escaped = "" ) ]_vars

\* the handler offered a key equal to the newest one; add raised and it was caught
C3_Witness ==
    /\ bufOp.op = "handle"
    /\ bufOp.raised
    /\ bufOp.escaped = ""
    /\ Len(data) > 0
    /\ bufOp.t = keys[Len(keys)]

\* C4: clear() leaves no keys and no values, and the buffer then behaves as a new
\* one: the next add(t, v) succeeds for any t, after which num_entries is 1,
\* latest_timestamp is t and search(t) returns v.
C4_ClearEmpties ==
    [][ /\ bufOp'.op = "clear" => (keys' = <<>> /\ data' = <<>>)
        /\ (bufOp.op = "clear" /\ bufOp'.op = "add") =>
              /\ ~bufOp'.raised
              /\ num_entries(data') = 1
              /\ latest_timestamp(keys', data') = Some(bufOp'.t)
              /\ search(keys', data', bufOp'.t).kind = "value"
              /\ search(keys', data', bufOp'.t).value = bufOp'.v ]_vars

\* C4, the part a caller observes through add, num_entries, latest_timestamp and
\* search alone.
ClearThenAddBehavesAsNew ==
    [][ (bufOp.op = "clear" /\ bufOp'.op = "add") =>
              /\ ~bufOp'.raised
              /\ num_entries(data') = 1
              /\ latest_timestamp(keys', data') = Some(bufOp'.t)
              /\ search(keys', data', bufOp'.t).kind = "value"
              /\ search(keys', data', bufOp'.t).value = bufOp'.v ]_vars

----------------------------------------------------------------------------
(* Properties of the Transceiver and the PerseveringReceiver, checked under
   UartSpec *)

\* one frame was written, and it arrives as written
CleanFrame == Len(scen.frames) = 1 /\ scen.cidx = 0

\* one frame was written, and one of its bytes arrives changed
CorruptedFrame == Len(scen.frames) = 1 /\ scen.cidx > 0

TheFrame == scen.frames[1]

\* the registry has a handler for the frame's type whose message class reads the body
Dispatchable(f) == f.type \in HandlerTypes /\ parse(f.type, f.body).ok

\* c is the invocation of the handler of f's type with the parse of f's body
CallOf(c, f) == c.type = f.type /\ c.msg = parse(f.type, f.body).msg

\* every byte has arrived and the receiver can read no further: the receive thread
\* blocks in a read, or a capped call returns without consuming a byte
Settled ==
    /\ wire = <<>>
    /\ pr.escaped = ""
    /\ IF scen.mode = "blocking"
       THEN CASE rx.state = "WAITING_FOR_HEADER" -> Len(port) < 1
              [] rx.state = "READING_HEADER" -> Len(port) < HEADER_SIZE
              [] OTHER -> Len(port) < body_size(Machine)
       ELSE pr_process_in(Machine, pr, MaxPackets, now).m.port = port

\* C5: a frame written by send for a type with a registered handler, arriving all
\* at once or byte by byte, is dispatched exactly once, to that handler, with the
\* parse of the body that was sent, and the receiver ends in WAITING_FOR_HEADER:
\* never a second or a different invocation, and once the receiver has read all
\* it can, exactly the one invocation, every byte consumed, no exception.
C5_SendReceiveRoundTrip ==
    (CleanFrame /\ Dispatchable(TheFrame)) =>
        /\ Len(calls) <= 1
        /\ \A i \in 1..Len(calls) : CallOf(calls[i], TheFrame)
        /\ pr.seen = 0 /\ pr.escaped = ""
        /\ Settled => /\ Len(calls) = 1
                      /\ rx.state = "WAITING_FOR_HEADER"
                      /\ port = <<>>

\* a frame whose body is the byte 0xA5 has been read to its end by capped calls
\* and dispatched
C5_Witness ==
    /\ CleanFrame /\ Dispatchable(TheFrame)
    /\ TheFrame.type = 6 /\ TheFrame.body = <<HEADER_START>>
    /\ scen.mode = "capped"
    /\ Settled
    /\ Len(calls) = 1 /\ CallOf(calls[1], TheFrame)
    /\ rx.state = "WAITING_FOR_HEADER"

\* a complete well-formed frame starts at byte i of bytes
ValidFrameAt(bytes, i) ==
    /\ i + HEADER_SIZE + MSG_TYPE_SIZE + FOOTER_SIZE <= Len(bytes)
    /\ bytes[i] = HEADER_START
    /\ LET n == UnpackU16(SubSeq(bytes, i + 1, i + 2))
           last == i + HEADER_SIZE + MSG_TYPE_SIZE + n + FOOTER_SIZE
       IN  /\ last <= Len(bytes)
           /\ SubSeq(bytes, i, last) =
                send(UnpackU16(SubSeq(bytes, i + 5, i + 6)),
                     SubSeq(bytes, i + 7, i + 6 + n), bytes[i + 3])

\* c is the dispatch of the well-formed frame that starts at byte i of bytes
CallOfFrameAt(c, bytes, i) ==
    /\ ValidFrameAt(bytes, i)
    /\ LET n == UnpackU16(SubSeq(bytes, i + 1, i + 2))
       IN  CallOf(c, [type |-> UnpackU16(SubSeq(bytes, i + 5, i + 6)),
                      body |-> SubSeq(bytes, i + 7, i + 6 + n)])

\* what reaches the receiver in this scenario
Arriving == Corrupt(StreamBytes(scen.frames), scen.cidx, scen.cval)

FirstBodyIndex == 1 + HEADER_SIZE + 1

C6_EmbeddedFrameDispatched ==
    /\ CorruptedFrame
    /\ scen.cidx < FirstBodyIndex
    /\ Len(calls) = 1

\* C7 as stated: with max_num_parse_errors = N the fatal exception is raised only
\* on the (N+1)-th parse error of the child, the first N being swallowed.
C7_FatalOnlyAfterNSwallowed ==
    pr.escaped = TooManyParseErrors => pr.seen = MaxNumParseErrors + 1

\* what the code does: the fatal exception is raised on the N-th parse error
\* (only N-1 are swallowed), and until then the counter equals the errors seen.
FatalOnNthParseError ==
    /\ pr.escaped = TooManyParseErrors => pr.seen = MaxNumParseErrors
    /\ pr.escaped = "" => pr.error_counter = pr.seen /\ pr.seen < MaxNumParseErrors


\* the part of C5 that holds: the round trip of a frame whose handler returns
RoundTripWhenHandlerReturns ==
    (CleanFrame /\ Dispatchable(TheFrame) /\ handle_raises(parse(TheFrame.type, TheFrame.body).msg) = "") =>
        /\ Len(calls) <= 1
        /\ \A i \in 1..Len(calls) : CallOf(calls[i], TheFrame)
        /\ pr.seen = 0 /\ pr.escaped = ""
        /\ Settled => /\ Len(calls) = 1
                      /\ rx.state = "WAITING_FOR_HEADER"
                      /\ port = <<>>

\* C22: for a frame that passes both CRC checks and whose body its message
\* class parses - an OdometryMessage that declares zero turrets included - no
\* exception escapes process_in of the Transceiver or of the PerseveringReceiver,
\* and once the handler has run the receiver is in WAITING_FOR_HEADER.
C22_NoExceptionForWellFormedFrame ==
    (CleanFrame /\ Dispatchable(TheFrame)) =>
        /\ pr.escaped = ""
        /\ Len(calls) >= 1 => rx.state = "WAITING_FOR_HEADER"

\* an OdometryMessage with zero turrets was dispatched, the handler raised
\* IndexError and the receiver was left in READING_BODY
ZeroTurretsEscape ==
    /\ CleanFrame /\ TheFrame.type = 1 /\ TheFrame.body = OdometryBody(0)
    /\ Len(calls) = 1
    /\ pr.escaped = "IndexError"
    /\ rx.state = "READING_BODY"

\* the bytes the state the receiver is in reads at once
BytesWanted ==
    CASE rx.state = "WAITING_FOR_HEADER" -> 1
      [] rx.state = "READING_HEADER" -> HEADER_SIZE
      [] OTHER -> MSG_TYPE_SIZE + rx.msg_len + FOOTER_SIZE

\* the header waiting in the port fails the CRC-8 check
HeaderRejects ==
    /\ rx.state = "READING_HEADER" /\ Len(port) >= BytesWanted
    /\ crc8(<<HEADER_START, port[1], port[2], port[3]>>, CRC8_INIT) # port[4]

\* the type and body waiting in the port fail the CRC-16 check
BodyCrcRejects ==
    /\ rx.state = "READING_BODY" /\ Len(port) >= BytesWanted
    /\ crc16(SubSeq(port, 1, MSG_TYPE_SIZE + rx.msg_len), rx.running_crc16)
         # port[BytesWanted - 1] + 256 * port[BytesWanted]

\* the body waiting in the port passes the CRC-16 check, has a handler, and its
\* message class does not parse it
ParseRejects ==
    /\ rx.state = "READING_BODY" /\ Len(port) >= BytesWanted
    /\ ~BodyCrcRejects
    /\ port[1] + 256 * port[2] \in HandlerTypes
    /\ ~parse(port[1] + 256 * port[2],
              SubSeq(port, MSG_TYPE_SIZE + 1, MSG_TYPE_SIZE + rx.msg_len)).ok

\* the receive thread makes the reads of its state
ThreadReads == scen.mode = "blocking" /\ Len(port') < Len(port)

\* C25: when the Transceiver rejects a frame - header CRC-8 mismatch, body
\* CRC-16 mismatch or a body that does not parse - no handler is invoked for it
\* and the receiver is in WAITING_FOR_HEADER before it reads the next byte; a
\* parse failure, and only it, also raises MessageParseUnhandledError to the
\* caller (the PerseveringReceiver counts it).
C25_RejectedFrameDropped ==
    [][(ThreadReads /\ (HeaderRejects \/ BodyCrcRejects \/ ParseRejects)) =>
          /\ calls' = calls
          /\ rx'.state = "WAITING_FOR_HEADER"
          /\ IF ParseRejects THEN pr'.seen = pr.seen + 1 ELSE pr' = pr]_vars

\* a frame whose body does not parse has been read by the receive thread: no
\* handler ran, the caller saw the error, the receiver waits for a header
C25_Witness ==
    /\ scen.mode = "blocking"
    /\ rxOp.rejected = "parse"
    /\ calls = <<>>
    /\ pr.seen = 1
    /\ rx.state = "WAITING_FOR_HEADER"

\* the port holds fewer bytes than the state the receiver is in reads
TooFewBuffered == Len(port) < BytesWanted

\* C26: a process_in with a packet cap never asks the port for more bytes than
\* are waiting in it, and a call made when too few bytes are waiting for the
\* current state consumes nothing and leaves the state, the recorded length,
\* the running CRC-16 and the header receipt timestamp as they were.
C26_CappedCallNeverWaits ==
    /\ [](rxOp.call = "capped" => ~rxOp.blocked)
    /\ [][(scen.mode = "capped" /\ TooFewBuffered /\ wire' = wire /\ now' = now) =>
            (rx' = rx /\ port' = port /\ calls' = calls /\ rxOp'.returned)]_vars

\* a capped call has returned in the middle of a frame: the header is read, part
\* of the body waits in the port, and the call left it there
C26_Witness ==
    /\ rxOp.call = "capped" /\ rxOp.returned
    /\ rx.state = "READING_BODY" /\ rx.msg_len > 0
    /\ Len(port) > 0
    /\ TooFewBuffered

\* C29: when the child receiver's process_in completes successfully, the
\* PerseveringReceiver's parse-error counter is back at zero.
C29_CounterResetOnSuccess ==
    (rxOp.call = "capped" /\ rxOp.returned) => pr.error_counter = 0

\* what the code does: the counter is the number of parse errors seen since
\* construction until the fatal exception; a successful call leaves it alone
CounterNeverResetOnSuccess ==
    pr.escaped = "" => pr.error_counter = pr.seen

----------------------------------------------------------------------------
(* Properties of TargetTracker, checked under TrackerSpec *)

Fate(i) == trkOp.fates[i].fate

\* how many of the first i targets of the list before the update are still tracked
KeptUpTo(i) == Cardinality({j \in 1..i : Fate(j) # "dropped"})

NumKept == KeptUpTo(Len(trkOp.before))

\* the targets the last update created
Created == (NumKept + 1)..Len(targets)

Ids(list) == {list[k].instance_id : k \in 1..Len(list)}

\* C8: every target the tracker creates gets an id above 0 and above every id the
\* tracker issued before (dropped targets' ids included), ids created in one
\* update increase, no two tracked targets share an id, and a target that
\* survives an update keeps its id.
C8_IdsIncreaseUniqueStable ==
    /\ \A k \in 1..Len(targets) : targets[k].instance_id > 0
    /\ \A k, l \in 1..Len(targets) :
            k # l => targets[k].instance_id # targets[l].instance_id
    /\ \A k \in Created : \A id \in trkOp.issued_before : targets[k].instance_id > id
    /\ \A k, l \in Created : k < l => targets[k].instance_id < targets[l].instance_id
    /\ \A i \in 1..Len(trkOp.before) :
            Fate(i) # "dropped" =>
                targets[KeptUpTo(i)].instance_id = trkOp.before[i].instance_id

\* an update dropped a target, kept another and created a third, whose id is not
\* the dropped one's
C8_Witness ==
    /\ \E i \in 1..Len(trkOp.before) : Fate(i) = "dropped"
    /\ \E i \in 1..Len(trkOp.before) : Fate(i) # "dropped"
    /\ Created # {}
    /\ trkOp.issued_before \ Ids(targets) # {}

\* C9: at frame time t a target matched to no measurement is still tracked after
\* the update iff t - latest_observed_timestamp <= max_staleness; if it is, its
\* latest_observed_timestamp is what it was and its update time is t; hence no
\* tracked target was last measured more than max_staleness before the frame.
C9_StalenessDecidesSurvival ==
    /\ \A i \in 1..Len(trkOp.before) :
        LET target == trkOp.before[i]
            age == trkOp.timestamp - target.latest_observed_timestamp
        IN  trkOp.fates[i].with = None =>
              /\ (target.instance_id \in Ids(targets)) <=> (age <= max_staleness)
              /\ age <= max_staleness =>
                    LET after == targets[KeptUpTo(i)]
                    IN  /\ after.instance_id = target.instance_id
                        /\ after.latest_observed_timestamp =
                                target.latest_observed_timestamp
                        /\ after.latest_observed_position =
                                target.latest_observed_position
                        /\ after.latest_update_timestamp = trkOp.timestamp
    /\ \A k \in 1..Len(targets) :
        trkOp.timestamp - targets[k].latest_observed_timestamp <= max_staleness

\* one update kept an unmatched target last measured exactly max_staleness before
\* the frame and dropped one last measured earlier
C9_Witness ==
    /\ \E i \in 1..Len(trkOp.before) :
        /\ Fate(i) = "extrapolated"
        /\ trkOp.timestamp - trkOp.before[i].latest_observed_timestamp = max_staleness
        /\ trkOp.before[i].instance_id \in Ids(targets)
    /\ \E i \in 1..Len(trkOp.before) :
        /\ Fate(i) = "dropped"
        /\ trkOp.timestamp - trkOp.before[i].latest_observed_timestamp > max_staleness
        /\ trkOp.before[i].instance_id \notin Ids(targets)

\* the measurements no target earlier in the list than i has taken, in frame order
RECURSIVE NotTaken(_)
NotTaken(i) ==
    IF i = 1 THEN trkOp.measured
    ELSE IF trkOp.fates[i - 1].with = None THEN NotTaken(i - 1)
    ELSE SelectSeq(NotTaken(i - 1), LAMBDA m : m # trkOp.fates[i - 1].with[1])

Range(list) == {list[k] : k \in 1..Len(list)}

\* the measurements no target has taken
Unmatched == NotTaken(Len(trkOp.before) + 1)

\* C10: targets are handled in list order; each takes the measurement nearest to
\* its extrapolated position among those no earlier target took, if that
\* distance is strictly below max_distance, and is then updated with it; no
\* measurement goes to two targets; each measurement left makes one new target.
C10_GreedyNearestAssociation ==
    /\ \A i \in 1..Len(trkOp.before) :
        LET e == trkOp.extrapolated[i]
            free == Range(NotTaken(i))
            near == {m \in free : distance(e, m) < max_distance}
            with == trkOp.fates[i].with
        IN  /\ (with # None) <=> (near # {})
            /\ with # None =>
                /\ with[1] \in near
                /\ \A m \in free : distance(e, with[1]) <= distance(e, m)
                /\ targets[KeptUpTo(i)].instance_id = trkOp.before[i].instance_id
                /\ targets[KeptUpTo(i)].latest_observed_position = with[1]
                /\ targets[KeptUpTo(i)].latest_observed_timestamp = trkOp.timestamp
    /\ \A i, j \in 1..Len(trkOp.before) :
        (i # j /\ trkOp.fates[i].with # None) => trkOp.fates[i].with # trkOp.fates[j].with
    /\ Len(targets) = NumKept + Len(Unmatched)
    /\ \A k \in Created :
        /\ targets[k].latest_observed_position = Unmatched[k - NumKept]
        /\ targets[k].latest_observed_timestamp = trkOp.timestamp

\* the first target took a measurement that was also within max_distance of the
\* second, which went without; a measurement exactly max_distance from a target
\* was not taken by it and made a new target
C10_Witness ==
    /\ Len(trkOp.before) >= 2
    /\ trkOp.fates[1].with # None
    /\ trkOp.fates[2].with = None
    /\ distance(trkOp.extrapolated[2], trkOp.fates[1].with[1]) < max_distance
    /\ \E m \in Range(Unmatched) : distance(trkOp.extrapolated[2], m) = max_distance
    /\ Created # {}

----------------------------------------------------------------------------
(* Properties of TargetSelector, checked under SelectorSpec *)

\* the plates of the update state that lie strictly closer than max_radius to the robot
PlatesNear(robot, state) ==
    SelectSeq(state.plates,
              LAMBDA p : Abs(robot.latest_estimated_position - p.latest_estimated_position)
                           < selector_max_radius)

\* the plate target the update state gives for a robot target
PlateFor(robot, state) ==
    IF robot = None THEN None ELSE ApplySelector(state.plate_selector, PlatesNear(robot[1], state))

StillListed(robot, state) ==
    /\ robot # None
    /\ \E i \in 1..Len(state.robots) : state.robots[i].instance_id = robot[1].instance_id

\* C11: on every TargetSelector.update a selected robot that is still in the robots
\* list stays the selected robot, robot_selector is run exactly when no robot was
\* selected or the selected robot has left the list (and then decides the robot
\* target), and the plate target is recomputed from the plates strictly closer than
\* max_radius to the selected robot, nothing if no robot is selected.
C11_RobotStickyPlateRecomputed ==
    [][selOp'.kind = "update" =>
        /\ StillListed(robot_target, last_update_state') =>
             /\ robot_target' # None
             /\ robot_target'[1].instance_id = robot_target[1].instance_id
        /\ selOp'.ran_robot_selector <=> ~StillListed(robot_target, last_update_state')
        /\ selOp'.ran_robot_selector =>
             robot_target' = ApplySelector(last_update_state'.robot_selector,
                                           last_update_state'.robots)
        /\ plate_target' = PlateFor(robot_target', last_update_state')]_vars

\* an update kept a robot that robot_selector would not have picked, and found it a plate
C11_Witness ==
    /\ selOp.kind = "update"
    /\ ~selOp.ran_robot_selector
    /\ robot_target # None
    /\ ApplySelector(last_update_state.robot_selector, last_update_state.robots) # robot_target
    /\ plate_target # None
    /\ Len(PlatesNear(robot_target[1], last_update_state)) < Len(last_update_state.plates)

\* what the selector aims at, as the claims state it
AimOutput ==
    IF robot_target = None THEN None
    ELSE IF is_robot_beyblading(tracked_robots, robot_target[1]) THEN robot_target
    ELSE plate_target

NoTargetMessage(msg) ==
    ~msg.has_target /\ msg.position = 0 /\ msg.velocity = 0 /\ msg.acceleration = 0

\* C12: the aim output is the selected robot when no robot is selected (nothing) or
\* the selected robot is beyblading, otherwise the selected plate (possibly nothing);
\* the message the main loop sends has has_target = 0 and zero spatial fields exactly
\* when the aim output is nothing, and otherwise carries the aimed target's estimate.
C12_AimOutputAndMessage ==
    selOp.kind = "send" =>
        /\ aim_message # None
        /\ NoTargetMessage(aim_message[1]) <=> AimOutput = None
        /\ AimOutput # None =>
             /\ aim_message[1].has_target
             /\ aim_message[1].position = AimOutput[1].latest_estimated_position
             /\ aim_message[1].velocity = AimOutput[1].latest_estimated_velocity

\* a message was sent that aims at a beyblading robot although a plate is selected too
C12_Witness ==
    /\ selOp.kind = "send"
    /\ robot_target # None
    /\ plate_target # None
    /\ is_robot_beyblading(tracked_robots, robot_target[1])
    /\ aim_message # None
    /\ aim_message[1].has_target
    /\ aim_message[1].position = robot_target[1].latest_estimated_position
    /\ aim_message[1].position # plate_target[1].latest_estimated_position

\* C13: reselect() drops the sticky robot: the robot target becomes
\* robot_selector(robots) and the plate target plate_selector of the plates strictly
\* closer than max_radius to that robot, both on the arguments of the latest update
\* (the empty state, hence nothing, if update was never called); the beyblade
\* identifier and the remembered update state are left as they were.
C13_ReselectOnLastUpdateState ==
    [][selOp'.kind = "reselect" =>
        /\ robot_target' = ApplySelector(last_update_state.robot_selector,
                                         last_update_state.robots)
        /\ plate_target' = PlateFor(robot_target', last_update_state)
        /\ tracked_robots' = tracked_robots
        /\ last_update_state' = last_update_state
        /\ last_update_state = EmptyUpdateState =>
             robot_target' = None /\ plate_target' = None]_vars

\* a reselect replaced the sticky robot by another one and found it a plate
C13_Witness ==
    /\ selOp.kind = "reselect"
    /\ selOp.robot_changed
    /\ robot_target # None
    /\ plate_target # None
    /\ tracked_robots # <<>>

\* C20: an update called again with the update state of the update just before it
\* leaves robot_target, plate_target and the aim output as that first update left them.
C20_UpdateIdempotent ==
    [][(selOp.kind = "update" /\ selOp'.kind = "update"
            /\ last_update_state' = last_update_state) =>
        /\ robot_target' = robot_target
        /\ plate_target' = plate_target
        /\ AimOutput' = AimOutput]_vars

\* the same update state was passed twice in a row while a beyblading robot was selected
C20_Witness ==
    /\ selOp.kind = "update"
    /\ selOp.repeated
    /\ robot_target # None
    /\ plate_target # None
    /\ \E id \in DOMAIN tracked_robots : tracked_robots[id].exit_filter.value > 0

----------------------------------------------------------------------------
(* Properties of select_target, checked under PickSpec *)

RECURSIVE WeightedSum(_, _)
WeightedSum(scores, n) ==
    IF n = 0 THEN 0 ELSE RuleWeights[n] * scores[n][1] + WeightedSum(scores, n - 1)

\* the weighted score of the i-th target given: the sum over the rules of weight times score
ScoreOf(i) == WeightedSum(select_in.targets[i], Len(RuleWeights))

NoRuleInvalid(i) == \A r \in 1..Len(RuleWeights) : select_in.targets[i][r] # None

\* the targets no rule marks invalid whose score is strictly below the configured threshold
Qualifying ==
    {i \in 1..Len(select_in.targets) :
        /\ NoRuleInvalid(i)
        /\ select_in.threshold # None => ScoreOf(i) < select_in.threshold[1]}

\* C14: select_target returns one of the given targets that no rule marks invalid and
\* whose weighted score is strictly below maximum_score_threshold when configured, of
\* minimal weighted score among these; it returns nothing iff there is no such target.
C14_MinimalScoreAmongValid ==
    select_out.done =>
        /\ select_out.chosen = None <=> Qualifying = {}
        /\ select_out.chosen # None =>
             /\ select_out.chosen[1] \in Qualifying
             /\ \A q \in Qualifying : ScoreOf(select_out.chosen[1]) <= ScoreOf(q)

\* a target was chosen past an invalid one and past one whose score equals the threshold
C14_Witness ==
    /\ select_out.done
    /\ select_out.chosen # None
    /\ select_out.chosen[1] = 3
    /\ select_in.threshold # None
    /\ ~NoRuleInvalid(1)
    /\ NoRuleInvalid(2) /\ ScoreOf(2) = select_in.threshold[1]

----------------------------------------------------------------------------
(* Properties of SelectNewTargetRequestManager, checked under RequestSpec *)

\* C15: however register_new_selection_message (receiver thread) interleaves with
\* consume_queued_request and peek_queued_request (main loop), no registered request
\* is returned by consume_queued_request twice, and a consume or peek that follows a
\* consume with no registration in between returns nothing.
C15_ConsumedAtMostOnce ==
    /\ \A i, j \in 1..Len(mgrOp.returned) : i # j => mgrOp.returned[i] # mgrOp.returned[j]
    /\ ~mgrOp.last.repeated
    /\ mgrOp.last.after_consume => mgrOp.last.value = None
    /\ (mgrOp.consumed /\ pcs.main = "idle") => latest_queued_request = None

\* two requests were consumed, a third call found nothing, and the receiver is storing again
C15_Witness ==
    /\ Len(mgrOp.returned) = 2
    /\ mgrOp.last.op = "peek"
    /\ mgrOp.last.after_consume
    /\ mgrOp.last.value = None
    /\ pcs.receiver = "release"
    /\ latest_queued_request # None

----------------------------------------------------------------------------
(* Properties of BeybladeIndicator, checked under IndicatorSpec *)

\* the slow (enter) filter is at or above indicator_threshold
SlowAtThreshold == indicator.enter_filter.value * ThresholdDen >= ThresholdNum * FilterScale

\* the fast (exit) filter is at or above indicator_threshold
FastAtThreshold == indicator.exit_filter.value * ThresholdDen >= ThresholdNum * FilterScale

----------------------------------------------------------------------------
(* Properties of VariableKMeans, checked under KMeansSpec *)

KRadius == kmeans_max_radius * KScale

LogEntries == {kmOp.log[k] : k \in 1..Len(kmOp.log)}

\* the observations of the last update that spawned a filter, in order
Spawns == SelectSeq(kmOp.log, LAMBDA e : e.decision = "spawn")

\* C17 as stated: an observation at most max_radius from the nearest existing filter
\* (at its current value) updates that filter, and a filter is spawned only for an
\* observation farther than max_radius from every existing filter.
C17_NearestExistingFilterUpdated ==
    \A e \in LogEntries :
        /\ (e.nearest_existing # -1 /\ e.nearest_existing <= KRadius) =>
              (e.decision = "update" /\ e.distance = e.nearest_existing)
        /\ e.decision = "spawn" => (e.nearest_existing = -1 \/ e.nearest_existing > KRadius)

\* C17, amended: among the filters no earlier observation of this call has updated,
\* an observation at most max_radius from the nearest one updates that one, and a
\* filter, initialised to the observation, is spawned exactly for an observation that
\* has no such filter or is farther than max_radius from all of them.
C17_NearestUnassignedFilterUpdated ==
    /\ \A e \in LogEntries :
        /\ (e.nearest_available # -1 /\ e.nearest_available <= KRadius) =>
              (e.decision = "update" /\ e.distance = e.nearest_available)
        /\ e.decision = "spawn" => (e.nearest_available = -1 \/ e.nearest_available > KRadius)
        /\ e.decision \in {"update", "spawn"}
    /\ Len(Spawns) = Len(kmOp.new_centers)
    /\ \A j \in 1..Len(Spawns) : kmOp.new_centers[j].value = Spawns[j].position

\* an observation within max_radius of a filter spawned a new one, that filter having
\* been updated by an earlier observation of the same call
C17_Witness ==
    \E e \in LogEntries :
        /\ e.decision = "spawn"
        /\ e.nearest_existing # -1
        /\ e.nearest_existing <= KRadius
        /\ e.nearest_available = -1

\* the filters that existed before the last update and are young enough after it
YoungEnough ==
    {i \in 1..Len(kmOp.updated) :
        kmOp.current_time - kmOp.updated[i].latest_update_timestamp < age_limit}

\* C18: at the end of update a filter that existed before the call is kept iff
\* current_time minus its latest_update_timestamp, as this call's updates left it, is
\* strictly below age_limit; every filter spawned in the call is kept whatever its
\* timestamp; centers are the values of the kept filters, old ones first, in order.
C18_CullByAgeKeepSpawned ==
    kmOp.updates > 0 =>
        /\ Len(tracked_centers) = Cardinality(YoungEnough) + Len(kmOp.new_centers)
        /\ \A i \in YoungEnough :
              tracked_centers[Cardinality({j \in YoungEnough : j <= i})] = kmOp.updated[i]
        /\ \A j \in 1..Len(kmOp.new_centers) :
              tracked_centers[Cardinality(YoungEnough) + j] = kmOp.new_centers[j]
        /\ kmOp.centers = [i \in 1..Len(tracked_centers) |-> tracked_centers[i].value]

\* a filter updated in the call was culled for its age while a filter spawned with the
\* same timestamp was kept
C18_Witness ==
    /\ kmOp.updates > 0
    /\ \E e \in LogEntries :
          /\ e.decision = "update"
          /\ e.filter \notin YoungEnough
    /\ \E j \in 1..Len(kmOp.new_centers) :
          /\ kmOp.current_time - kmOp.new_centers[j].latest_update_timestamp >= age_limit
          /\ tracked_centers[Cardinality(YoungEnough) + j] = kmOp.new_centers[j]

----------------------------------------------------------------------------
(* Properties of TargetGrouper, checked under GrouperSpec *)

Emitted == group_out.center_estimates

\* the plates that went into the k-th center
PlatesOf(k) == {Emitted[k].target} \cup ({Emitted[k].best} \ {0})

\* the plates no center before the k-th was made from
UnpairedBefore(k) == (1..Len(group_in)) \ UNION {PlatesOf(j) : j \in 1..(k - 1)}

InRadii(a, b) ==
    /\ Abs(group_in[a] - group_in[b]) >= grouper_min_radius
    /\ Abs(group_in[a] - group_in[b]) <= grouper_max_radius

NumPairs == Cardinality({k \in 1..Len(Emitted) : Emitted[k].best # 0})

\* C19: every plate goes into exactly one emitted center; the centers come in list
\* order of the first still-unpaired plate, which is paired with a nearest other
\* unpaired plate whose distance from it lies in [min_radius, max_radius] and then
\* emits their midpoint, or emits its own position if there is none; so the number of
\* centers is the number of plates minus the number of pairs.
C19_EveryPlateInOneCenter ==
    group_out.done =>
        /\ \A p \in 1..Len(group_in) :
              Cardinality({k \in 1..Len(Emitted) : p \in PlatesOf(k)}) = 1
        /\ \A k \in 1..Len(Emitted) :
              LET e == Emitted[k]
                  others == {x \in UnpairedBefore(k) \ {e.target} : InRadii(e.target, x)}
              IN  /\ e.target \in UnpairedBefore(k)
                  /\ \A p \in UnpairedBefore(k) : e.target <= p
                  /\ e.best = 0 <=> others = {}
                  /\ e.best # 0 =>
                        /\ e.best \in others
                        /\ \A x \in others : Abs(group_in[e.target] - group_in[e.best])
                                               <= Abs(group_in[e.target] - group_in[x])
                        /\ e.twice_position = group_in[e.target] + group_in[e.best]
                  /\ e.best = 0 => e.twice_position = 2 * group_in[e.target]
        /\ Len(Emitted) = Len(group_in) - NumPairs

\* four plates gave a pair and two single centers: the second plate was taken by the
\* first, the third found no partner left in range
C19_Witness ==
    /\ group_out.done
    /\ Len(group_in) = 4
    /\ Len(Emitted) = 3
    /\ Emitted[1].best = 2
    /\ Emitted[2].target = 3
    /\ Emitted[2].best = 0
    /\ InRadii(3, 2)

----------------------------------------------------------------------------
(* Properties of the shared odometry buffer *)

\* C21: every read of the buffer made by the main loop (search, num_entries,
\* oldest_timestamp, latest_timestamp) returns what the same read returns on
\* the buffer as it stood before, or as it stands after, an add of the
\* receiver thread that runs meanwhile - never a value of a buffer in the
\* middle of an add.
C21_ReadsSerialized ==
    shOp.last.op # "none" => shOp.last.serialized

\* the part of C21 that the lock gives: search is serialized with add
SearchSerialized ==
    shOp.last.op = "search" => shOp.last.serialized

\* latest_timestamp is serialized with add although it takes no lock: the key
\* appended first is the newest key of the buffer add leaves
LatestSerialized ==
    shOp.last.op = "latest_timestamp" => shOp.last.serialized

\* a property read completes while add is between two of its statements
C21_ReadDuringAdd ==
    /\ shOp.last.op \in {"num_entries", "oldest_timestamp"}
    /\ shOp.last.during_add
    /\ buf_pcs.receiver \in {"expire", "pop_key", "pop_data"}
----------------------------------------------------------------------------
(* Properties of main() and the main loop *)

\* main() under the scheduling the claim on the dead receive thread assumes:
\* frames keep arriving, so the main thread comes back to the top of its loop,
\* and a main thread that can leave the context or return does so
MainLiveSpec ==
    MainInit /\ [][MainNext]_vars
    /\ WF_vars(UartDiedBreak) /\ WF_vars(ExitContext) /\ WF_vars(MainReturns)

\* the run was ended by a fatal error logged to the critical channel
FatalExit == main_pc = "exited" /\ Len(critical_log) > 0

\* C23: a run ended by a fatal error that is logged to the critical channel
\* (an unhandled exception in initialization or in the main loop, the death of
\* the receive thread) exits with a nonzero code
C23_FatalErrorExitsNonzero == FatalExit => exit_code # Some(EXIT_SUCCESS)

\* whatever ended the run, main() returns normally: the exit code is 0
ExitCodeAlwaysZero == exit_code # None => exit_code = Some(EXIT_SUCCESS)

\* a run ended by the death of the receive thread, and one ended by an exception
ExitAfterThreadDeath == FatalExit /\ mainOp.left_by = "break"

ExitAfterException == FatalExit /\ exception # ""

\* the step is a main-loop iteration that took a frame
TakesFrame == mainOp'.iterations = mainOp.iterations + 1

\* C27: an iteration sends exactly one message, carrying the MCB timestamp of the
\* odometry entry found, iff the identity is known and the buffer has an entry
\* for the frame's time; otherwise the trackers, the clusterer and the selector
\* are not updated, a pending reselect request is not consumed, nothing is sent
C27_IterationSendsOrSkips ==
    [][TakesFrame =>
         LET odometry == search(keys, data, mainOp'.frame_time)
         IN  IF identity # None /\ odometry.kind = "value"
             THEN /\ sent' = Append(sent, sent'[Len(sent')])
                  /\ sent'[Len(sent')].mcb_timestamp = odometry.value.timestamp
                  /\ ~mainOp'.skipped
             ELSE /\ sent' = sent
                  /\ updates' = updates
                  /\ latest_queued_request' = latest_queued_request
                  /\ mainOp'.skipped]_vars

\* a message was sent for an earlier frame, and the last frame was skipped with a
\* reselect request pending
C27_Witness ==
    /\ Len(sent) > 0
    /\ mainOp.skipped
    /\ latest_queued_request # None

\* a frame was skipped for want of odometry though the identity was known
SkippedForOdometry ==
    /\ mainOp.skipped
    /\ identity # None
    /\ search(keys, data, mainOp.frame_time).kind = "None"

TornDown == resources = [serial |-> "closed", webserver |-> "closed"]

\* C28: once the receive thread has stopped, the main loop takes no further
\* frame, leaves its loop, and the serial port and the HTTP server end up
\* closed; they are closed too when the loop is left by an exception
C28_DeadThreadLeadsToTeardown ==
    /\ (main_pc = "loop" /\ ~uart_thread_alive) ~> (main_pc = "exited" /\ TornDown)
    /\ [][main_pc = "loop" /\ ~uart_thread_alive => ~TakesFrame]_vars
    /\ [](main_pc \in {"except", "exited"} /\ mainOp.left_by # "" => TornDown)

\* the loop was left because the thread was dead, after taking a frame, and the
\* resources are released
C28_Witness ==
    /\ main_pc = "exited"
    /\ mainOp.left_by = "break"
    /\ mainOp.iterations > 0
    /\ TornDown

\* the loop was left by an exception and the resources are released
TornDownAfterException ==
    main_pc = "exited" /\ mainOp.left_by = "exception" /\ TornDown

\* initialize() raised with the serial port open: terminate() is never run
SerialLeftOpen == main_pc = "exited" /\ resources.serial = "open"
----------------------------------------------------------------------------
(* Properties of Transform *)

\* every division by the squared norm is exact for the orientations drawn: the
\* rotation preserves the length of each direction and the matrix is orthogonal
ExactRotations ==
    /\ \A d \in Directions :
         VarianceAlong(as_matrix(<<1, 0, 0, 0>>), apply_to_vector(transform, d))
           = VarianceAlong(as_matrix(<<1, 0, 0, 0>>), d)
    /\ MatMul(as_matrix(transform.rotation), Transpose(as_matrix(transform.rotation)))
         = as_matrix(<<1, 0, 0, 0>>)

\* C24: T.get_inverse().apply_to_position(T.apply_to_position(p)) is p, exactly
\* for the rotations that map the coordinate axes onto each other
C24_InverseRoundTrip ==
    tfOp.call = "inverse.apply_to_position" => tfOp.result = tfOp.original

\* the round trip was made through a transform that both moves and turns, for a
\* position it does not leave in place
C24_Witness ==
    /\ tfOp.call = "inverse.apply_to_position"
    /\ transform.translation # <<0, 0, 0>>
    /\ as_matrix(transform.rotation) # as_matrix(<<1, 0, 0, 0>>)
    /\ tfOp.position # tfOp.original

\* C30: the variance of C along d is the variance of
\* T.apply_to_linear_uncertainty(C) along T.apply_to_vector(d), for every
\* direction d - after each call of apply_to_linear_uncertainty and, for the
\* uncertainty of the measurement, of apply_to_measured_position
C30_UncertaintyRotatedAsVectors ==
    /\ tfOp.call = "apply_to_linear_uncertainty" =>
         \A d \in Directions :
           VarianceAlong(tfOp.result, apply_to_vector(transform, d))
             = VarianceAlong(tfOp.uncertainty, d)
    /\ tfOp.call = "apply_to_measured_position" =>
         \A d \in Directions :
           VarianceAlong(tfOp.result.uncertainty, apply_to_vector(transform, d))
             = VarianceAlong(tfOp.measurement.uncertainty, d)

\* the uncertainty is turned by the matrix of the stored rotation, the vectors
\* and positions by its transpose
UncertaintyRotatedByStoredRotation ==
    tfOp.call = "apply_to_linear_uncertainty" =>
      \A d \in Directions :
        VarianceAlong(tfOp.result, _rotate_vector(d, transform.rotation))
          = VarianceAlong(tfOp.uncertainty, d)

\* the two agree when the rotation matrix is symmetric (the identity, a half turn)
ConsistentForSymmetricRotations ==
    /\ tfOp.call = "apply_to_linear_uncertainty"
    /\ as_matrix(transform.rotation) = Transpose(as_matrix(transform.rotation))
    => \A d \in Directions :
         VarianceAlong(tfOp.result, apply_to_vector(transform, d))
           = VarianceAlong(tfOp.uncertainty, d)

\* an uncertainty with unequal variances turned by a third of a turn
ThirdTurnOfUnequalVariances ==
    /\ tfOp.call = "apply_to_linear_uncertainty"
    /\ transform.rotation = <<1, 1, 1, 1>>
    /\ tfOp.uncertainty = <<<<1, 0, 0>>, <<0, 4, 0>>, <<0, 0, 9>>>>

====
